---- MODULE Spec2Model ----
(***************************************************************************)
(* Griddy microgrid dispatch backend: the wire codec                       *)
(* (src/binary_protocol.py), the /out and /in link tasks, the telemetry    *)
(* handler and the ring buffer (src/backend/main.py).                      *)
(***************************************************************************)
EXTENDS Integers, Sequences, FiniteSets, TLC

VARIABLES
    \* ---- backend (src/backend/main.py) ----
    out_pc,                  \* position of the connect_to_esp32_out task
    in_pc,                   \* position of the connect_to_esp32_in task
    proc_pc,                 \* position inside process_hardware_telemetry: "idle" | "llm"
    proc_ctx,                \* locals of the suspended process_hardware_telemetry call
    hardware_websocket_out,  \* "None", or the state of the socket it refers to: "open" | "closed"
    hardware_websocket_in,   \* "None", or the state of the socket it refers to: "open" | "closed"
    out_ready_event,         \* asyncio.Event: is it set
    cerebras_agent,          \* is a CerebrasAgent configured
    out_messages,            \* messages received on /out that the task has not read yet
    telemetry_buffer,        \* deque(maxlen=1000) of DemandRecord
    telemetry_timestamps,    \* deque(maxlen=100)
    dispatch_timestamps,     \* deque(maxlen=100)
    optimization_times,      \* deque(maxlen=50)
    dispatch_counts,         \* deque(maxlen=50)
    confidence_scores,       \* deque(maxlen=100)
    cerebras_escalations,    \* deque(maxlen=50)
    latest_metrics,          \* metrics of the last completed cycle
    \* ---- history ----
    sent,                    \* the frames delivered on /in, in order, with their sender
    ring_history,            \* every record appended to telemetry_buffer, in order
    n_cycles,                \* calls of optimizer.schedule
    n_llm,                   \* calls of cerebras_agent.make_dispatch_decision
    last_cycle,              \* inputs and results of the last cycle that ran to its end
    fed,                     \* the last packet handed to process_hardware_telemetry
    n_recv,                  \* messages received on /out
    n_decoded,               \* of these, telemetry frames decoded successfully
    n_text,                  \* of these, text messages
    n_manual,                \* POST /dispatch requests served
    \* ---- codec harness (SpecCodec) ----
    c_kind,      \* "telemetry" | "dispatch": which pair of codec functions is exercised
    c_from,      \* "packet": encode then decode;  "bytes": decode then encode
    c_stage,     \* number of codec functions applied so far (0..2)
    c_packet,    \* the input packet (c_from = "packet")
    c_bytes,     \* the input byte string (c_from = "bytes")
    c_enc,       \* result of the encoder
    c_dec,       \* result of the decoder
    \* ---- optimizer harness (SpecSchedule) ----
    o_stage,     \* "idle" | "input" | "forecast" | "solved" | "infeasible" | "done"
    o_records,   \* the records passed to schedule
    o_source,    \* the only entry of the sources passed to schedule
    o_forecasts, \* result of _generate_forecasts, per node in the order of its keys
    o_status,    \* what the solver stopped with: "optimal" | "feasible"
    o_plan,      \* the values of x the solver left, o_plan[t][i] for epoch t and node i
    o_dispatch   \* result of _extract_dispatch

linkVars == << out_pc, in_pc, hardware_websocket_out, hardware_websocket_in, out_ready_event >>

procVars == << proc_pc, proc_ctx >>

ringVars == << telemetry_buffer, telemetry_timestamps >>

cycleVars == << optimization_times, dispatch_counts, confidence_scores,
                cerebras_escalations, latest_metrics >>

sendVars == << dispatch_timestamps, sent >>

countVars == << fed, n_recv, n_decoded, n_text, n_manual >>

ghostVars == << ring_history, n_cycles, n_llm, last_cycle >>

backendVars == << linkVars, procVars, ringVars, cycleVars, sendVars, countVars, ghostVars,
                  cerebras_agent, out_messages >>

codecVars == << c_kind, c_from, c_stage, c_packet, c_bytes, c_enc, c_dec >>

optVars == << o_stage, o_records, o_source, o_forecasts, o_status, o_plan, o_dispatch >>

vars == << backendVars, codecVars, optVars >>

----------------------------------------------------------------------------
(* Bounds of the codec harness *)

\* longest node list enumerated exhaustively over the node alphabets
MaxNodes == 2
\* longest filler appended after a frame header when enumerating byte strings
MaxFill == 23

----------------------------------------------------------------------------
(* Python values *)

\* A Python float.  s: sign bit, e: biased 8-bit exponent field, m: fraction.
\* The fraction keeps 6 bits more than the 23 of an IEEE-754 single, standing
\* for the 29 extra bits a double has: a float whose low 6 bits are zero is
\* exactly representable in single precision.
FracUnit == 64          \* 2^6
Frac23 == 8388608       \* 2^23
QuietBit == 4194304     \* 2^22, the is-quiet bit of a single-precision NaN

PyFloat(s, e, m) == [s |-> s, e |-> e, m |-> m]

IsNaN(x) == x.e = 255 /\ x.m # 0
IsZero(x) == x.e = 0 /\ x.m = 0

\* Python's == on floats: NaN equals nothing, -0.0 == 0.0
FloatEq(x, y) ==
    IF IsNaN(x) \/ IsNaN(y) THEN FALSE
    ELSE IF IsZero(x) /\ IsZero(y) THEN TRUE
    ELSE x = y

\* exactly representable as an IEEE-754 single, finite
IsSingle(x) == x.m % FracUnit = 0 /\ x.e # 255

F_0    == PyFloat(0, 0, 0)              \* 0.0
F_0_5  == PyFloat(0, 126, 0)            \* 0.5
F_0_65 == PyFloat(0, 126, 161061273)    \* 0.65 (not a single)
F_1    == PyFloat(0, 127, 0)            \* 1.0
F_m1   == PyFloat(1, 127, 0)            \* -1.0
F_2_5  == PyFloat(0, 128, 134217728)    \* 2.5
F_7_5  == PyFloat(0, 129, 469762048)    \* 7.5
F_12   == PyFloat(0, 130, 268435456)    \* 12.0
F_96   == PyFloat(0, 133, 268435456)    \* 96.0
F_88_2 == PyFloat(0, 133, 203004313)    \* 88.2 (not a single)

----------------------------------------------------------------------------
(* struct.pack / struct.unpack *)

TELEMETRY_MAGIC == 1196575044   \* 0x47524944
DISPATCH_MAGIC == 1145656144    \* 0x44495350

NODE_TYPE_POWER == 0
NODE_TYPE_CONSUMER == 1

\* struct.pack('<I', v), for 0 <= v < 2^31
pack_I(v) == << v % 256, (v \div 256) % 256, (v \div 65536) % 256, (v \div 16777216) % 256 >>

\* struct.unpack('<I', b), for byte strings whose last byte is below 0x80
unpack_I(b) == b[1] + 256 * b[2] + 65536 * b[3] + 16777216 * b[4]

\* '<B' accepts 0..255 and raises struct.error otherwise
FitsB(v) == v \in 0..255

\* the single nearest to x (round half to even), as <<exponent field, 23-bit fraction>>
RoundToSingle(x) ==
    LET q  == x.m \div FracUnit
        lo == x.m % FracUnit
        up == lo * 2 > FracUnit \/ (lo * 2 = FracUnit /\ q % 2 = 1)
        r  == IF up /\ x.e # 255 THEN q + 1 ELSE q
    IN  IF r = Frac23 THEN << x.e + 1, 0 >> ELSE << x.e, r >>

\* struct.pack('<f', x) raises OverflowError when a finite x rounds to infinity
PackOverflows(x) == x.e # 255 /\ RoundToSingle(x)[1] = 255

\* struct.pack('<f', x)
pack_f(x) ==
    LET r == RoundToSingle(x)
        e == r[1]
        f == r[2]
    IN  << f % 256, (f \div 256) % 256, (f \div 65536) + 128 * (e % 2), 128 * x.s + (e \div 2) >>

\* struct.unpack('<f', b): the single is widened to a double; the widening
\* conversion turns a signalling NaN into the quiet NaN of the same payload
unpack_f(b) ==
    LET s == b[4] \div 128
        e == 2 * (b[4] % 128) + (b[3] \div 128)
        f == b[1] + 256 * b[2] + 65536 * (b[3] % 128)
        g == IF e = 255 /\ f # 0 /\ f < QuietBit THEN f + QuietBit ELSE f
    IN  PyFloat(s, e, g * FracUnit)

\* data[a:b] of Python, 0-based half-open, clipped to the data
Slice(data, a, b) ==
    LET hi == IF b < Len(data) THEN b ELSE Len(data)
    IN  IF a >= hi THEN << >> ELSE SubSeq(data, a + 1, hi)

\* the concatenation of equally long chunks
Flatten(chunks, stride) ==
    [ i \in 1..(stride * Len(chunks)) |-> chunks[((i - 1) \div stride) + 1][((i - 1) % stride) + 1] ]

----------------------------------------------------------------------------
(* Packets *)

TelemetryNode(id, type, demand, fulfillment) ==
    [id |-> id, type |-> type, demand |-> demand, fulfillment |-> fulfillment]

TelemetryPacket(timestamp, nodes) == [timestamp |-> timestamp, nodes |-> nodes]

DispatchNode(id, supply, source) == [id |-> id, supply |-> supply, source |-> source]

DispatchPacket(nodes) == [nodes |-> nodes]

\* dataclass __eq__: field by field, floats by Python's ==
TelemetryNodeEq(a, b) ==
    /\ a.id = b.id
    /\ a.type = b.type
    /\ FloatEq(a.demand, b.demand)
    /\ FloatEq(a.fulfillment, b.fulfillment)

TelemetryPacketEq(p, q) ==
    /\ p.timestamp = q.timestamp
    /\ Len(p.nodes) = Len(q.nodes)
    /\ \A i \in 1..Len(p.nodes) : TelemetryNodeEq(p.nodes[i], q.nodes[i])

DispatchNodeEq(a, b) ==
    /\ a.id = b.id
    /\ FloatEq(a.supply, b.supply)
    /\ a.source = b.source

DispatchPacketEq(p, q) ==
    /\ Len(p.nodes) = Len(q.nodes)
    /\ \A i \in 1..Len(p.nodes) : DispatchNodeEq(p.nodes[i], q.nodes[i])

\* results of the encoders: the bytes, or the exception raised
Encoded(data) == [err |-> "none", data |-> data]
Raised(exc) == [err |-> exc, data |-> << >>]

\* results of the decoders: a packet, or None
None == [ok |-> FALSE, packet |-> << >>]
Some(p) == [ok |-> TRUE, packet |-> p]

----------------------------------------------------------------------------
(* BinaryProtocol *)

\* encode_telemetry writing the padding byte the decoder skips: 11 bytes per node
encode_telemetry_padded(packet) ==
    LET nodes == packet.nodes
        chunk(n) == << n.id, n.type, 0 >> \o pack_f(n.demand) \o pack_f(n.fulfillment)
    IN  IF \/ packet.timestamp < 0
           \/ ~FitsB(Len(nodes))
           \/ \E i \in 1..Len(nodes) : ~FitsB(nodes[i].id) \/ ~FitsB(nodes[i].type)
        THEN Raised("struct.error")
        ELSE Encoded(pack_I(TELEMETRY_MAGIC) \o pack_I(packet.timestamp) \o << Len(nodes) >>
                     \o Flatten([i \in 1..Len(nodes) |-> chunk(nodes[i])], 11))

encode_telemetry(packet) ==
    LET nodes == packet.nodes
        chunk(n) == << n.id, n.type >> \o pack_f(n.demand) \o pack_f(n.fulfillment)
    IN  IF \/ packet.timestamp < 0
           \/ ~FitsB(Len(nodes))
           \/ \E i \in 1..Len(nodes) : ~FitsB(nodes[i].id) \/ ~FitsB(nodes[i].type)
        THEN Raised("struct.error")
        ELSE IF \E i \in 1..Len(nodes) :
                    PackOverflows(nodes[i].demand) \/ PackOverflows(nodes[i].fulfillment)
        THEN Raised("OverflowError")
        ELSE Encoded(pack_I(TELEMETRY_MAGIC) \o pack_I(packet.timestamp) \o << Len(nodes) >>
                     \o Flatten([i \in 1..Len(nodes) |-> chunk(nodes[i])], 10))

decode_telemetry(data) ==
    IF Len(data) < 9 THEN None
    ELSE IF unpack_I(Slice(data, 0, 4)) # TELEMETRY_MAGIC THEN None
    ELSE LET timestamp  == unpack_I(Slice(data, 4, 8))
             node_count == data[9]
             \* every node advances the offset by 1 + 1 + 1 + 4 + 4
             off(i) == 9 + 11 * (i - 1)
             \* struct.unpack raises struct.error on a slice of the wrong size
             short(i) == \/ Len(Slice(data, off(i), off(i) + 1)) # 1
                         \/ Len(Slice(data, off(i) + 1, off(i) + 2)) # 1
                         \/ Len(Slice(data, off(i) + 3, off(i) + 7)) # 4
                         \/ Len(Slice(data, off(i) + 7, off(i) + 11)) # 4
             node(i) == TelemetryNode(data[off(i) + 1], data[off(i) + 2],
                                      unpack_f(Slice(data, off(i) + 3, off(i) + 7)),
                                      unpack_f(Slice(data, off(i) + 7, off(i) + 11)))
         IN  IF Len(data) # 9 + node_count * 10 THEN None
             ELSE IF \E i \in 1..node_count : short(i) THEN None
             ELSE Some(TelemetryPacket(timestamp, [i \in 1..node_count |-> node(i)]))

encode_dispatch(packet) ==
    LET nodes == packet.nodes
        chunk(n) == << n.id >> \o pack_f(n.supply) \o << n.source >>
    IN  IF \/ ~FitsB(Len(nodes))
           \/ \E i \in 1..Len(nodes) : ~FitsB(nodes[i].id) \/ ~FitsB(nodes[i].source)
        THEN Raised("struct.error")
        ELSE IF \E i \in 1..Len(nodes) : PackOverflows(nodes[i].supply)
        THEN Raised("OverflowError")
        ELSE Encoded(pack_I(DISPATCH_MAGIC) \o << Len(nodes) >>
                     \o Flatten([i \in 1..Len(nodes) |-> chunk(nodes[i])], 6))

\* decode_dispatch reading the source byte where the id is and the id where the source is
decode_dispatch_swapped(data) ==
    IF Len(data) < 5 THEN None
    ELSE IF unpack_I(Slice(data, 0, 4)) # DISPATCH_MAGIC THEN None
    ELSE LET node_count == data[5]
             off(i) == 5 + 6 * (i - 1)
             node(i) == DispatchNode(data[off(i) + 6],
                                     unpack_f(Slice(data, off(i) + 1, off(i) + 5)),
                                     data[off(i) + 1])
         IN  IF Len(data) # 5 + node_count * 6 THEN None
             ELSE Some(DispatchPacket([i \in 1..node_count |-> node(i)]))

decode_dispatch(data) ==
    IF Len(data) < 5 THEN None
    ELSE IF unpack_I(Slice(data, 0, 4)) # DISPATCH_MAGIC THEN None
    ELSE LET node_count == data[5]
             off(i) == 5 + 6 * (i - 1)
             node(i) == DispatchNode(data[off(i) + 1],
                                     unpack_f(Slice(data, off(i) + 1, off(i) + 5)),
                                     data[off(i) + 6])
         IN  IF Len(data) # 5 + node_count * 6 THEN None
             ELSE Some(DispatchPacket([i \in 1..node_count |-> node(i)]))

----------------------------------------------------------------------------
(* Bounds of the backend model *)

\* messages received on /out in one run
MaxFrames == 3
\* POST /dispatch requests in one run
MaxManual == 2

----------------------------------------------------------------------------
(* Python values used by the backend *)

\* str(n) for an integer n, and a string that int() rejects
PyStr(n) == [numeric |-> TRUE, n |-> n]
NonIntStr == [numeric |-> FALSE, n |-> 0]

\* int(v): raises ValueError unless v spells an integer
CanInt(v) == v.numeric
PyInt(v) == v.n

\* ms / 1000: seconds; the float is the rounding of this exact quotient
Seconds(ms) == [num |-> ms, den |-> 1000]

TwoTo27 == 134217728
TwoTo29 == 536870912

\* x / 5.0, correctly rounded (the remainder of a division by 5 is never a tie)
FloatDiv5(x) ==
    IF x.e = 255 \/ IsZero(x) THEN x
    ELSE LET M   == TwoTo29 + x.m
             c   == IF M >= 5 * TwoTo27 THEN 4 ELSE 8
             q   == M \div 5
             r   == M % 5
             int == c * q + ((c * r) \div 5)
             rem == (c * r) % 5
             R   == IF 2 * rem > 5 THEN int + 1 ELSE int
         IN  PyFloat(x.s, x.e - (IF c = 4 THEN 2 ELSE 3), R - TwoTo29)

\* a bounded buffer that refuses new items once it is full
DequeExtend_KeepOldest(d, items, maxlen) ==
    LET all == d \o items
    IN  IF Len(all) > maxlen THEN SubSeq(all, 1, maxlen) ELSE all

\* deque(maxlen=...).extend: items go in at the right, the oldest fall out
DequeExtend(d, items, maxlen) ==
    LET all == d \o items
    IN  IF Len(all) > maxlen THEN SubSeq(all, Len(all) - maxlen + 1, Len(all)) ELSE all

DequeAppend(d, item, maxlen) == DequeExtend(d, << item >>, maxlen)

----------------------------------------------------------------------------
(* Global state of main.py *)

RingCapacity == 1000
TimestampWindow == 100
ConfidenceWindow == 100
OptimizationWindow == 50
EscalationWindow == 50

VIRTUAL_ESP32 == "VIRTUAL_ESP32"

DemandRecord(timestamp, node_id, demand_amps, fulfillment) ==
    [timestamp |-> timestamp, node_id |-> node_id,
     demand_amps |-> demand_amps, fulfillment |-> fulfillment]

Instruction(id, supply_amps, source_id) ==
    [id |-> id, supply_amps |-> supply_amps, source_id |-> source_id]

NoContext == [site |-> "none"]
NoMetrics == [set |-> FALSE]
NoCycle == [frame |-> 0]
NoResponse == [ok |-> FALSE, decisions |-> << >>, confidence |-> 0, ai_time |-> 0]

\* time.time(): the number of events served so far
Clock == n_recv + n_manual

BackendInit ==
    /\ out_pc = "resolve"
    /\ in_pc = "check"
    /\ proc_pc = "idle"
    /\ proc_ctx = NoContext
    /\ hardware_websocket_out = "None"
    /\ hardware_websocket_in = "None"
    /\ out_ready_event = FALSE
    /\ cerebras_agent \in BOOLEAN
    /\ out_messages = << >>
    /\ telemetry_buffer = << >>
    /\ telemetry_timestamps = << >>
    /\ dispatch_timestamps = << >>
    /\ optimization_times = << >>
    /\ dispatch_counts = << >>
    /\ confidence_scores = << >>
    /\ cerebras_escalations = << >>
    /\ latest_metrics = NoMetrics
    /\ sent = << >>
    /\ ring_history = << >>
    /\ n_cycles = 0
    /\ n_llm = 0
    /\ last_cycle = NoCycle
    /\ fed = TelemetryPacket(0, << >>)
    /\ n_recv = 0
    /\ n_decoded = 0
    /\ n_text = 0
    /\ n_manual = 0

----------------------------------------------------------------------------
(* BinaryProtocol.telemetry_to_json_compat *)

\* telemetry_to_json_compat naming every node that is not a power node a consumer
telemetry_to_json_compat_nonpower(packet) ==
    [ timestamp |-> packet.timestamp,
      nodes |-> [ i \in 1..Len(packet.nodes) |->
                    [ id |-> packet.nodes[i].id,
                      type |-> IF packet.nodes[i].type = NODE_TYPE_POWER THEN "power" ELSE "consumer",
                      demand |-> packet.nodes[i].demand,
                      ff |-> packet.nodes[i].fulfillment ] ] ]

telemetry_to_json_compat(packet) ==
    [ timestamp |-> packet.timestamp,
      nodes |-> [ i \in 1..Len(packet.nodes) |->
                    [ id |-> packet.nodes[i].id,
                      type |-> IF packet.nodes[i].type = NODE_TYPE_CONSUMER THEN "consumer" ELSE "power",
                      demand |-> packet.nodes[i].demand,
                      ff |-> packet.nodes[i].fulfillment ] ] ]

----------------------------------------------------------------------------
(* send_dispatch_to_hardware *)

\* a conversion that skips what it cannot encode and cuts the list at 255
DispatchFrame_ValidOnly(instructions) ==
    LET valid == SelectSeq(instructions, LAMBDA d : CanInt(d.id) /\ FitsB(PyInt(d.id)))
        kept  == SubSeq(valid, 1, IF Len(valid) <= 255 THEN Len(valid) ELSE 255)
    IN  encode_dispatch(DispatchPacket(
            [ i \in 1..Len(kept) |->
                DispatchNode(PyInt(kept[i].id), FloatDiv5(kept[i].supply_amps), 1) ]))

\* the frame built from the instructions, or the exception raised on the way
DispatchFrame(instructions) ==
    IF \E i \in 1..Len(instructions) : ~CanInt(instructions[i].id)
    THEN Raised("ValueError")
    ELSE encode_dispatch(DispatchPacket(
            [ i \in 1..Len(instructions) |->
                DispatchNode(PyInt(instructions[i].id), FloatDiv5(instructions[i].supply_amps), 1) ]))

\* a send that does not look at the /in link: the frame gets out whatever
\* the state of the handle
send_dispatch_to_hardware_AnyLink(instructions, by, frame) ==
    IF DispatchFrame(instructions).err = "none"
    THEN /\ sent' = Append(sent, [by |-> by, frame |-> frame,
                                  data |-> DispatchFrame(instructions).data,
                                  behind |-> Len(out_messages)])
         /\ dispatch_timestamps' = DequeAppend(dispatch_timestamps, Clock', TimestampWindow)
    ELSE UNCHANGED sendVars

\* nothing is sent without a handle; an exception from the conversion, the
\* encoder or the send on a closed socket is logged and swallowed
send_dispatch_to_hardware(instructions, by, frame) ==
    IF /\ hardware_websocket_in = "open"
       /\ DispatchFrame(instructions).err = "none"
    THEN /\ sent' = Append(sent, [by |-> by, frame |-> frame,
                                  data |-> DispatchFrame(instructions).data,
                                  behind |-> Len(out_messages)])
         /\ dispatch_timestamps' = DequeAppend(dispatch_timestamps, Clock', TimestampWindow)
    ELSE UNCHANGED sendVars

----------------------------------------------------------------------------
(* process_hardware_telemetry *)

\* lines 289-299: one DemandRecord per node whose type is "consumer"
ConsumerRecords(data) ==
    LET consumers == SelectSeq(data.nodes, LAMBDA node : node.type = "consumer")
    IN  [ i \in 1..Len(consumers) |->
            DemandRecord(Seconds(data.timestamp), PyStr(consumers[i].id),
                         consumers[i].demand, consumers[i].ff) ]

\* a cycle that runs on two records
EnoughRecords_Two(buffer) == Len(buffer) >= 2

\* line 305: the ring holds enough records for a cycle to run
EnoughRecords(buffer) == Len(buffer) >= 3

----------------------------------------------------------------------------
(* Numbers of the scheduling cycle.  Amperes and confidences are computed  *)
(* in thousandths, times in whole milliseconds.                            *)

Max(a, b) == IF a >= b THEN a ELSE b
Min(a, b) == IF a <= b THEN a ELSE b

\* sum(seq[lo..hi]), by halves
RECURSIVE SumRange(_, _, _)
SumRange(seq, lo, hi) ==
    IF lo > hi THEN 0
    ELSE IF lo = hi THEN seq[lo]
    ELSE SumRange(seq, lo, (lo + hi) \div 2) + SumRange(seq, (lo + hi) \div 2 + 1, hi)

Sum(seq) == SumRange(seq, 1, Len(seq))

TwoTo15 == 32768

\* a finite float in thousandths, rounded toward zero (exact for the
\* multiples of 1/1000 with short fractions that the runs below use)
Milli(x) ==
    IF IsZero(x) THEN 0
    ELSE LET hi  == (TwoTo29 + x.m) \div TwoTo15
             k   == 138 - x.e
             mag == IF k >= 0 THEN (hi * 125) \div (2 ^ k) ELSE (hi * 125) * (2 ^ (0 - k))
         IN  IF x.s = 1 THEN 0 - mag ELSE mag

----------------------------------------------------------------------------
(* MicrogridOptimizer.schedule *)

min_history_points == 5

\* max_supply_amps of the only entry of ENERGY_SOURCES, in thousandths
MaxSupplyMilli == 10000

\* sorted(records, key=lambda r: r.timestamp), which is stable
RECURSIVE SortedByTimestamp(_)
SortedByTimestamp(records) ==
    IF records = << >> THEN << >>
    ELSE LET rest   == SortedByTimestamp(SubSeq(records, 1, Len(records) - 1))
             r      == records[Len(records)]
             before == SelectSeq(rest, LAMBDA q : q.timestamp.num <= r.timestamp.num)
             after  == SelectSeq(rest, LAMBDA q : q.timestamp.num > r.timestamp.num)
         IN  before \o << r >> \o after

\* _aggregate_node_states: the keys of node_data, in insertion order
RECURSIVE NodeOrder(_)
NodeOrder(sorted) ==
    IF sorted = << >> THEN << >>
    ELSE LET init == NodeOrder(SubSeq(sorted, 1, Len(sorted) - 1))
             id   == sorted[Len(sorted)].node_id
         IN  IF \E i \in 1..Len(init) : init[i] = id THEN init ELSE Append(init, id)

\* node_data[id]['history'] and node_data[id]['latest_demand']
History(sorted, id) == SelectSeq(sorted, LAMBDA r : r.node_id = id)
LatestDemand(sorted, id) == History(sorted, id)[Len(History(sorted, id))].demand_amps

\* _generate_forecasts takes the flat branch for every node
AllFlat(sorted) ==
    \A i \in 1..Len(NodeOrder(sorted)) :
        Len(History(sorted, NodeOrder(sorted)[i])) < min_history_points

\* flat forecasts, none negative, that the source can serve together: the
\* program of _build_milp_model then has one optimum, every node served its
\* latest demand in every epoch
Solvable(records) ==
    LET sorted == SortedByTimestamp(records)
        order  == NodeOrder(sorted)
    IN  /\ AllFlat(sorted)
        /\ \A i \in 1..Len(order) : Milli(LatestDemand(sorted, order[i])) >= 0
        /\ Sum([ i \in 1..Len(order) |-> Milli(LatestDemand(sorted, order[i])) ]) <= MaxSupplyMilli

\* an extraction that names a source the configuration does not have
ServeLatest_UnknownSource(records) ==
    LET sorted == SortedByTimestamp(records)
        served == SelectSeq(NodeOrder(sorted), LAMBDA id : Milli(LatestDemand(sorted, id)) > 0)
    IN  [ i \in 1..Len(served) |->
            Instruction(served[i], LatestDemand(sorted, served[i]), "GRID") ]

\* _extract_dispatch on that optimum: one instruction per node whose supply
\* exceeds 1e-6, in the order of the forecasts' keys
ServeLatest(records) ==
    LET sorted == SortedByTimestamp(records)
        served == SelectSeq(NodeOrder(sorted), LAMBDA id : Milli(LatestDemand(sorted, id)) > 0)
    IN  [ i \in 1..Len(served) |->
            Instruction(served[i], LatestDemand(sorted, served[i]), VIRTUAL_ESP32) ]

\* schedule.  status: what the solver reports; without a solution the
\* variables have no value and _extract_dispatch returns nothing
schedule(records, status) ==
    IF status = "optimal" THEN ServeLatest(records) ELSE << >>

----------------------------------------------------------------------------
(* calculate_confidence_score *)

\* confidence < 0.5, in thousandths
HalfConfidence == 500

\* 1 - var/max(mean, 0.1) of the demands (in hundredths of an ampere), floored at 0
VarianceConfidence(centi) ==
    LET n  == Len(centi)
        s1 == Sum(centi)
        s2 == Sum([ i \in 1..n |-> centi[i] * centi[i] ])
        nv == (n * s2 - s1 * s1) \div n
    IN  Max(0, 1000 - (nv * 10) \div Max(s1, 10 * n))

\* list(telemetry_buffer)[-50:], the demands in hundredths of an ampere
RecentDemands(buffer) ==
    LET recent == SubSeq(buffer, Max(1, Len(buffer) - 49), Len(buffer))
    IN  [ i \in 1..Len(recent) |-> Milli(recent[i].demand_amps) \div 10 ]

\* lines 503-509: the variance term, neutral when there are too few records
VarianceTerm(recent_demands) ==
    IF Len(recent_demands) > 10 THEN VarianceConfidence(recent_demands) ELSE 500

\* lines 495-500, 511-513: the weighted average of the three terms, on the
\* totals (thousandths of an ampere)
WeightedConfidence(opt_time, total_demand, total_dispatched, variance_confidence) ==
    LET time_confidence    == Max(0, 1000 - 10 * opt_time)
        satisfaction_ratio == Min(1000, (1000 * total_dispatched) \div Max(total_demand, 100))
        confidence == (300 * time_confidence + 500 * satisfaction_ratio
                       + 200 * variance_confidence) \div 1000
    IN  Min(1000, Max(0, confidence))

calculate_confidence_score(records, dispatch, opt_time, buffer) ==
    WeightedConfidence(opt_time,
                       Sum([ i \in 1..Len(records) |-> Milli(records[i].demand_amps) ]),
                       Sum([ i \in 1..Len(dispatch) |-> Milli(dispatch[i].supply_amps) ]),
                       VarianceTerm(RecentDemands(buffer)))

----------------------------------------------------------------------------
(* process_hardware_telemetry, continued *)

CycleMetrics(data, opt_time, confidence, instructions) ==
    [ set |-> TRUE, timestamp |-> data.timestamp, optimization_time_ms |-> opt_time,
      confidence_score |-> confidence, dispatch_count |-> Len(instructions) ]

\* what a cycle took in and what it came to
CycleReport(frame, records, opt_time, milp, milp_confidence, escalated, response, instructions, confidence) ==
    [ frame |-> frame, records |-> records, milp |-> milp, milp_confidence |-> milp_confidence,
      escalated |-> escalated, response |-> response,
      instructions |-> instructions, confidence |-> confidence,
      \* milliseconds spent in schedule (line 311) and in the LLM call (line 366)
      elapsed |-> opt_time + response.ai_time ]

\* an escalation gate that opens at any confidence
ShouldEscalate_Always(confidence) == cerebras_agent

\* line 326: confidence < 0.5 and cerebras_agent
ShouldEscalate(confidence) == confidence < HalfConfidence /\ cerebras_agent

\* The handler up to its first suspension.  outcome: the solver's status in
\* this call (or that schedule raises) and the time schedule took.  site: the
\* call site in connect_to_esp32_out.
ProcessTelemetry(data, outcome, site) ==
    LET records    == ConsumerRecords(data)
        buffer     == DequeExtend(telemetry_buffer, records, RingCapacity)
        instr      == schedule(buffer, outcome.status)
        confidence == calculate_confidence_score(records, instr, outcome.opt_time, buffer)
    IN  /\ telemetry_timestamps' = DequeAppend(telemetry_timestamps, Clock', TimestampWindow)
        /\ telemetry_buffer' = buffer
        /\ ring_history' = ring_history \o records
        /\ IF ~EnoughRecords(buffer)
           THEN UNCHANGED << cycleVars, sendVars, procVars, n_cycles, n_llm, last_cycle >>
           ELSE /\ n_cycles' = n_cycles + 1
                /\ outcome.status = "optimal" => Solvable(buffer)
                /\ IF outcome.status = "raises"
                   THEN UNCHANGED << cycleVars, sendVars, procVars, n_llm, last_cycle >>
                   ELSE /\ optimization_times' = DequeAppend(optimization_times, outcome.opt_time, OptimizationWindow)
                        /\ dispatch_counts' = DequeAppend(dispatch_counts, Len(instr), OptimizationWindow)
                        /\ confidence_scores' = DequeAppend(confidence_scores, confidence, ConfidenceWindow)
                        /\ IF ShouldEscalate(confidence)
                           THEN \* suspended in cerebras_agent.make_dispatch_decision
                                /\ proc_pc' = "llm"
                                /\ proc_ctx' = [site |-> site, data |-> data, records |-> records,
                                                frame |-> n_recv', opt_time |-> outcome.opt_time,
                                                instr |-> instr, confidence |-> confidence]
                                /\ n_llm' = n_llm + 1
                                /\ UNCHANGED << cerebras_escalations, latest_metrics, sendVars, last_cycle >>
                           ELSE /\ send_dispatch_to_hardware(instr, "cycle", n_recv')
                                /\ latest_metrics' = CycleMetrics(data, outcome.opt_time, confidence, instr)
                                /\ last_cycle' = CycleReport(n_recv', records, outcome.opt_time, instr, confidence,
                                                             FALSE, NoResponse, instr, confidence)
                                /\ UNCHANGED << cerebras_escalations, procVars, n_llm >>

\* an escalation that falls back to an empty dispatch when the call fails
EscalationResult_Fallback(ctx, response) ==
    IF response.ok
    THEN [instructions |-> response.decisions, confidence |-> response.confidence]
    ELSE [instructions |-> << >>, confidence |-> 0]

\* lines 359-395: dispatch_instructions and confidence are reassigned only
\* after the call has returned; the except clause leaves them as they were
EscalationResult(ctx, response) ==
    IF response.ok
    THEN [instructions |-> response.decisions, confidence |-> response.confidence]
    ELSE [instructions |-> ctx.instr, confidence |-> ctx.confidence]

\* The handler from the return of the LLM call to its end.  response: the
\* CerebrasDispatchResponse, or a failure of the call.
ResumeTelemetry(response) ==
    LET instructions == EscalationResult(proc_ctx, response).instructions
        confidence   == EscalationResult(proc_ctx, response).confidence
    IN  /\ IF response.ok
           THEN /\ confidence_scores' = DequeAppend(confidence_scores, confidence, ConfidenceWindow)
                /\ cerebras_escalations' = DequeAppend(cerebras_escalations, Clock, EscalationWindow)
           ELSE UNCHANGED << confidence_scores, cerebras_escalations >>
        /\ send_dispatch_to_hardware(instructions, "cycle", proc_ctx.frame)
        /\ latest_metrics' = CycleMetrics(proc_ctx.data, proc_ctx.opt_time, confidence, instructions)
        /\ last_cycle' = CycleReport(proc_ctx.frame, proc_ctx.records, proc_ctx.opt_time, proc_ctx.instr,
                                     proc_ctx.confidence, TRUE, response, instructions, confidence)
        /\ proc_pc' = "idle"
        /\ proc_ctx' = NoContext
        /\ UNCHANGED << optimization_times, dispatch_counts, ringVars, ring_history, n_cycles, n_llm >>

----------------------------------------------------------------------------
(* connect_to_esp32_out *)

\* the codec harness at rest
CodecIdle ==
    /\ c_kind = "telemetry"
    /\ c_from = "packet"
    /\ c_stage = 0
    /\ c_packet = << >>
    /\ c_bytes = << >>
    /\ c_enc = Raised("unset")
    /\ c_dec = None

\* the optimizer harness at rest
OptIdle ==
    /\ o_stage = "idle"
    /\ o_records = << >>
    /\ o_source = << >>
    /\ o_forecasts = << >>
    /\ o_status = "none"
    /\ o_plan = << >>
    /\ o_dispatch = << >>

handlerVars == << procVars, ringVars, cycleVars, sendVars, ghostVars >>

\* get_esp32_ip returns the stored address or the fallback
OutResolve ==
    /\ out_pc = "resolve"
    /\ out_pc' = "connect"
    /\ UNCHANGED << in_pc, hardware_websocket_out, hardware_websocket_in, out_ready_event >>
    /\ UNCHANGED << handlerVars, countVars, cerebras_agent, out_messages, codecVars, optVars >>

\* connect_to_esp32_out that signals readiness as soon as /out is connected
OutConnect_SetsReady ==
    /\ out_pc = "connect"
    /\ \E ok \in BOOLEAN :
          IF ok
          THEN /\ hardware_websocket_out' = "open"
               /\ out_pc' = "first"
               /\ out_ready_event' = TRUE
          ELSE /\ hardware_websocket_out' = "None"
               /\ out_pc' = "sleep"
               /\ UNCHANGED out_ready_event
    /\ UNCHANGED << in_pc, hardware_websocket_in >>
    /\ UNCHANGED << handlerVars, countVars, cerebras_agent, out_messages, codecVars, optVars >>

\* websockets.connect: the handle is stored, or the exception handler clears it
OutConnect ==
    /\ out_pc = "connect"
    /\ \E ok \in BOOLEAN :
          IF ok
          THEN /\ hardware_websocket_out' = "open"
               /\ out_pc' = "first"
          ELSE /\ hardware_websocket_out' = "None"
               /\ out_pc' = "sleep"
    /\ UNCHANGED << in_pc, hardware_websocket_in, out_ready_event >>
    /\ UNCHANGED << handlerVars, countVars, cerebras_agent, out_messages, codecVars, optVars >>

\* a dropped message that is counted in the telemetry rate window
DropMessage_Stamped ==
    /\ telemetry_timestamps' = DequeAppend(telemetry_timestamps, Clock', TimestampWindow)
    /\ UNCHANGED << procVars, telemetry_buffer, cycleVars, sendVars, ghostVars, fed, n_decoded >>

\* a text message, or a binary one decode_telemetry returns None for, is only
\* logged: process_hardware_telemetry is not called
DropMessage == UNCHANGED << handlerVars, fed, n_decoded >>

\* The first message of a connection.  text: it is a text message; dec: what
\* decode_telemetry returns for it.
OutFirst(text, dec, outcome) ==
    /\ out_pc = "first"
    /\ proc_pc = "idle"
    /\ n_recv' = n_recv + 1
    /\ n_text' = IF text THEN n_text + 1 ELSE n_text
    /\ UNCHANGED << n_manual, in_pc, hardware_websocket_in, cerebras_agent, codecVars, optVars >>
    /\ IF text
       THEN \* continue: the connection is left, the handle keeps the closed socket
            /\ hardware_websocket_out' = "closed"
            /\ out_pc' = "resolve"
            /\ UNCHANGED out_ready_event
            /\ DropMessage
       ELSE IF ~dec.ok
       THEN \* logged; the task enters the message loop of the same connection
            /\ out_pc' = "stream"
            /\ UNCHANGED << hardware_websocket_out, out_ready_event >>
            /\ DropMessage
       ELSE /\ n_decoded' = n_decoded + 1
            /\ fed' = dec.packet
            /\ ProcessTelemetry(telemetry_to_json_compat(dec.packet), outcome, "first")
            \* readiness is signalled once the handler has returned
            /\ out_ready_event' = (out_ready_event \/ proc_pc' = "idle")
            /\ out_pc' = IF proc_pc' = "idle" THEN "stream" ELSE "first"
            /\ UNCHANGED hardware_websocket_out

\* no first message within 2 s: continue, without clearing the handle
OutFirstTimeout ==
    /\ out_pc = "first"
    /\ proc_pc = "idle"
    /\ hardware_websocket_out' = "closed"
    /\ out_pc' = "resolve"
    /\ UNCHANGED << in_pc, hardware_websocket_in, out_ready_event >>
    /\ UNCHANGED << handlerVars, countVars, cerebras_agent, out_messages, codecVars, optVars >>

\* the connection fails while the first message is awaited
OutFirstError ==
    /\ out_pc = "first"
    /\ proc_pc = "idle"
    /\ hardware_websocket_out' = "None"
    /\ out_pc' = "sleep"
    /\ UNCHANGED << in_pc, hardware_websocket_in, out_ready_event >>
    /\ UNCHANGED << handlerVars, countVars, cerebras_agent, out_messages, codecVars, optVars >>

\* A later message of the connection.
OutStream(text, dec, outcome) ==
    /\ out_pc = "stream"
    /\ proc_pc = "idle"
    /\ n_recv' = n_recv + 1
    /\ n_text' = IF text THEN n_text + 1 ELSE n_text
    /\ UNCHANGED << n_manual, linkVars, cerebras_agent, codecVars, optVars >>
    /\ IF text \/ ~dec.ok
       THEN DropMessage
       ELSE /\ n_decoded' = n_decoded + 1
            /\ fed' = dec.packet
            /\ ProcessTelemetry(telemetry_to_json_compat(dec.packet), outcome, "stream")

\* the peer closes the connection cleanly: once the messages received before
\* the close have been read the message loop ends and the task starts over,
\* without clearing the handle
OutStreamEnd ==
    /\ out_pc = "stream"
    /\ proc_pc = "idle"
    /\ out_messages = << >>
    /\ hardware_websocket_out' = "closed"
    /\ out_pc' = "resolve"
    /\ UNCHANGED << in_pc, hardware_websocket_in, out_ready_event >>
    /\ UNCHANGED << handlerVars, countVars, cerebras_agent, out_messages, codecVars, optVars >>

\* the connection breaks: the exception handler clears the handle
OutStreamError ==
    /\ out_pc = "stream"
    /\ proc_pc = "idle"
    /\ out_messages = << >>
    /\ hardware_websocket_out' = "None"
    /\ out_pc' = "sleep"
    /\ UNCHANGED << in_pc, hardware_websocket_in, out_ready_event >>
    /\ UNCHANGED << handlerVars, countVars, cerebras_agent, out_messages, codecVars, optVars >>

\* a task that returns after the backoff instead of looping
OutSleepDone_Returns ==
    /\ out_pc = "sleep"
    /\ out_pc' = "returned"
    /\ UNCHANGED << in_pc, hardware_websocket_out, hardware_websocket_in, out_ready_event >>
    /\ UNCHANGED << handlerVars, countVars, cerebras_agent, out_messages, codecVars, optVars >>

\* asyncio.sleep(5) is over
OutSleepDone ==
    /\ out_pc = "sleep"
    /\ out_pc' = "resolve"
    /\ UNCHANGED << in_pc, hardware_websocket_out, hardware_websocket_in, out_ready_event >>
    /\ UNCHANGED << handlerVars, countVars, cerebras_agent, out_messages, codecVars, optVars >>

\* make_dispatch_decision returns or raises; the handler runs to its end and
\* connect_to_esp32_out goes on where it had called it
LlmReturn(response) ==
    /\ proc_pc = "llm"
    /\ UNCHANGED << countVars, cerebras_agent, out_messages, codecVars, optVars >>
    /\ UNCHANGED << in_pc, hardware_websocket_out, hardware_websocket_in >>
    /\ ResumeTelemetry(response)
    /\ IF proc_ctx.site = "first"
       THEN out_ready_event' = TRUE /\ out_pc' = "stream"
       ELSE UNCHANGED << out_ready_event, out_pc >>

----------------------------------------------------------------------------
(* connect_to_esp32_in *)

\* connect_to_esp32_in that does not wait for the readiness event
InCheck_NoWait ==
    /\ in_pc = "check"
    /\ in_pc' = "resolve"
    /\ UNCHANGED << out_pc, hardware_websocket_out, hardware_websocket_in, out_ready_event >>
    /\ UNCHANGED << handlerVars, countVars, cerebras_agent, out_messages, codecVars, optVars >>

\* top of the loop: wait unless the readiness event is set
InCheck ==
    /\ in_pc = "check"
    /\ in_pc' = IF out_ready_event THEN "resolve" ELSE "wait"
    /\ UNCHANGED << out_pc, hardware_websocket_out, hardware_websocket_in, out_ready_event >>
    /\ UNCHANGED << handlerVars, countVars, cerebras_agent, out_messages, codecVars, optVars >>

\* out_ready_event.wait() returns
InWake ==
    /\ in_pc = "wait"
    /\ out_ready_event
    /\ in_pc' = "resolve"
    /\ UNCHANGED << out_pc, hardware_websocket_out, hardware_websocket_in, out_ready_event >>
    /\ UNCHANGED << handlerVars, countVars, cerebras_agent, out_messages, codecVars, optVars >>

InResolve ==
    /\ in_pc = "resolve"
    /\ in_pc' = "connect"
    /\ UNCHANGED << out_pc, hardware_websocket_out, hardware_websocket_in, out_ready_event >>
    /\ UNCHANGED << handlerVars, countVars, cerebras_agent, out_messages, codecVars, optVars >>

InConnect ==
    /\ in_pc = "connect"
    /\ \E ok \in BOOLEAN :
          IF ok
          THEN /\ hardware_websocket_in' = "open"
               /\ in_pc' = "open"
          ELSE /\ hardware_websocket_in' = "None"
               /\ in_pc' = "sleep"
    /\ UNCHANGED << out_pc, hardware_websocket_out, out_ready_event >>
    /\ UNCHANGED << handlerVars, countVars, cerebras_agent, out_messages, codecVars, optVars >>

\* the /in connection closes (ConnectionClosed is caught, a clean close ends
\* the message loop): the task starts over, without clearing the handle
InClosed ==
    /\ in_pc = "open"
    /\ hardware_websocket_in' = "closed"
    /\ in_pc' = "check"
    /\ UNCHANGED << out_pc, hardware_websocket_out, out_ready_event >>
    /\ UNCHANGED << handlerVars, countVars, cerebras_agent, out_messages, codecVars, optVars >>

InSleepDone ==
    /\ in_pc = "sleep"
    /\ in_pc' = "check"
    /\ UNCHANGED << out_pc, hardware_websocket_out, hardware_websocket_in, out_ready_event >>
    /\ UNCHANGED << handlerVars, countVars, cerebras_agent, out_messages, codecVars, optVars >>

----------------------------------------------------------------------------
(* POST /dispatch *)

manual_dispatch(nodes) ==
    /\ n_manual' = n_manual + 1
    /\ UNCHANGED << n_recv, n_decoded, n_text, fed >>
    /\ send_dispatch_to_hardware(nodes, "manual", 0)
    /\ UNCHANGED << linkVars, procVars, ringVars, cycleVars, ghostVars, cerebras_agent, out_messages, codecVars, optVars >>

----------------------------------------------------------------------------
(* Codec harness: inputs *)

SeqsUpTo(S, n) == UNION { [1..k -> S] : k \in 0..n }

TelemetryNodeAlphabet ==
    { TelemetryNode(7, NODE_TYPE_CONSUMER, F_2_5, F_96),
      TelemetryNode(1, NODE_TYPE_POWER, F_0, F_88_2),
      TelemetryNode(255, 2, F_0_65, F_0) }

DispatchNodeAlphabet ==
    { DispatchNode(2, F_0_65, 1),
      DispatchNode(3, F_0_5, 1),
      DispatchNode(255, F_1, 0) }

TimestampAlphabet == { 0, 1234567890 }

\* a packet with the largest node count one count byte can carry
FullTelemetryPacket ==
    TelemetryPacket(1000, [i \in 1..255 |-> TelemetryNode(i, i % 3, F_2_5, F_96)])

FullDispatchPacket ==
    DispatchPacket([i \in 1..255 |-> DispatchNode(i, F_0_5, 1)])

TelemetryPacketInputs ==
    { TelemetryPacket(t, ns) : t \in TimestampAlphabet,
                               ns \in SeqsUpTo(TelemetryNodeAlphabet, MaxNodes) }
    \cup { FullTelemetryPacket }

DispatchPacketInputs ==
    { DispatchPacket(ns) : ns \in SeqsUpTo(DispatchNodeAlphabet, MaxNodes) }
    \cup { FullDispatchPacket }

\* "GRID" and "DISP" as the little-endian words the code compares against,
\* and "GRID" in reading order
MagicAlphabet == { pack_I(TELEMETRY_MAGIC), pack_I(DISPATCH_MAGIC), << 71, 82, 73, 68 >> }

CountAlphabet == { 0, 1, 2 }

\* node bytes repeated to the wanted length: a telemetry node with a padding
\* byte (id 7, consumer, 2.5 A, 96.0), a dispatch node (id 2, 0.5, source 1),
\* a dispatch node whose supply is a signalling NaN
FillAlphabet ==
    { << 7, 1, 0, 0, 0, 32, 64, 0, 0, 192, 66 >>,
      << 2, 0, 0, 0, 63, 1 >>,
      << 2, 1, 0, 128, 127, 1 >> }

Fill(tmpl, n) == [ i \in 1..n |-> tmpl[((i - 1) % Len(tmpl)) + 1] ]

WireInputs ==
    { m \o pack_I(t) \o << k >> \o Fill(f, n) :
          m \in MagicAlphabet, t \in {0}, k \in CountAlphabet, f \in FillAlphabet, n \in 0..MaxFill }
    \cup { m \o << k >> \o Fill(f, n) :
          m \in MagicAlphabet, k \in CountAlphabet, f \in FillAlphabet, n \in 0..MaxFill }
    \cup { SubSeq(pack_I(TELEMETRY_MAGIC) \o pack_I(0), 1, n) : n \in 0..8 }
    \cup { SubSeq(pack_I(DISPATCH_MAGIC), 1, n) : n \in 0..4 }

NoPacket == << >>
NoBytes == << >>

----------------------------------------------------------------------------
(* Codec harness: one input, then the codec functions applied to it *)

\* the backend at rest
BackendIdle == BackendInit /\ ~cerebras_agent

CodecInit ==
    /\ BackendIdle
    /\ OptIdle
    /\ c_stage = 0
    /\ c_enc = Raised("unset")
    /\ c_dec = None
    /\ \/ /\ c_from = "packet"
          /\ c_bytes = NoBytes
          /\ \/ c_kind = "telemetry" /\ c_packet \in TelemetryPacketInputs
             \/ c_kind = "dispatch" /\ c_packet \in DispatchPacketInputs
       \/ /\ c_from = "bytes"
          /\ c_packet = NoPacket
          /\ c_kind \in { "telemetry", "dispatch" }
          /\ c_bytes \in WireInputs

\* the encoder runs on the input packet, or on the packet the decoder returned
EncodeArg == IF c_from = "packet" THEN c_packet ELSE c_dec.packet

CanEncode ==
    \/ c_from = "packet" /\ c_stage = 0
    \/ c_from = "bytes" /\ c_stage = 1 /\ c_dec.ok

\* the decoder runs on the input bytes, or on the bytes the encoder returned
DecodeArg == IF c_from = "bytes" THEN c_bytes ELSE c_enc.data

CanDecode ==
    \/ c_from = "bytes" /\ c_stage = 0
    \/ c_from = "packet" /\ c_stage = 1 /\ c_enc.err = "none"

EncodeTelemetry ==
    /\ c_kind = "telemetry"
    /\ CanEncode
    /\ c_enc' = encode_telemetry(EncodeArg)
    /\ c_stage' = c_stage + 1
    /\ UNCHANGED << c_kind, c_from, c_packet, c_bytes, c_dec, backendVars, optVars >>

DecodeTelemetry ==
    /\ c_kind = "telemetry"
    /\ CanDecode
    /\ c_dec' = decode_telemetry(DecodeArg)
    /\ c_stage' = c_stage + 1
    /\ UNCHANGED << c_kind, c_from, c_packet, c_bytes, c_enc, backendVars, optVars >>

EncodeDispatch ==
    /\ c_kind = "dispatch"
    /\ CanEncode
    /\ c_enc' = encode_dispatch(EncodeArg)
    /\ c_stage' = c_stage + 1
    /\ UNCHANGED << c_kind, c_from, c_packet, c_bytes, c_dec, backendVars, optVars >>

DecodeDispatch ==
    /\ c_kind = "dispatch"
    /\ CanDecode
    /\ c_dec' = decode_dispatch(DecodeArg)
    /\ c_stage' = c_stage + 1
    /\ UNCHANGED << c_kind, c_from, c_packet, c_bytes, c_enc, backendVars, optVars >>

CodecNext ==
    \/ EncodeTelemetry
    \/ DecodeTelemetry
    \/ EncodeDispatch
    \/ DecodeDispatch

SpecCodec == CodecInit /\ [][CodecNext]_vars

----------------------------------------------------------------------------
(* The backend: inputs *)

TextMessage == [text |-> TRUE, data |-> << >>]
BinaryMessage(data) == [text |-> FALSE, data |-> data]

ConsumerNode7 == TelemetryNode(7, NODE_TYPE_CONSUMER, F_2_5, F_96)
ConsumerNode2 == TelemetryNode(2, NODE_TYPE_CONSUMER, F_1, F_88_2)
PowerNode1 == TelemetryNode(1, NODE_TYPE_POWER, F_0, F_96)
OtherNode9 == TelemetryNode(9, 2, F_2_5, F_0)
ConsumerNode7Heavy == TelemetryNode(7, NODE_TYPE_CONSUMER, F_7_5, F_96)
ConsumerNode3 == TelemetryNode(3, NODE_TYPE_CONSUMER, F_1, F_96)

\* what the device can put on /out: a text message, a frame without nodes, a
\* frame with one 10-byte node, a frame with one 11-byte node (padding byte
\* after the type), the latter with "GRID" in reading order
OutMessages ==
    { TextMessage,
      BinaryMessage(pack_I(TELEMETRY_MAGIC) \o pack_I(0) \o << 0 >>),
      BinaryMessage(pack_I(TELEMETRY_MAGIC) \o pack_I(0) \o << 1 >>
                    \o << 7, 1, 0, 0, 32, 64, 0, 0, 192, 66 >>),
      BinaryMessage(pack_I(TELEMETRY_MAGIC) \o pack_I(0) \o << 1 >>
                    \o << 7, 1, 0, 0, 0, 32, 64, 0, 0, 192, 66 >>),
      BinaryMessage(<< 71, 82, 73, 68 >> \o pack_I(0) \o << 1 >>
                    \o << 7, 1, 0, 0, 0, 32, 64, 0, 0, 192, 66 >>) }

\* lines 206-210 and 228-229: only a binary message is handed to the decoder
DecodeMessage(msg) == IF msg.text THEN None ELSE decode_telemetry(msg.data)

\* what one call of optimizer.schedule can come to: the solver's status, or an
\* exception, and the milliseconds it took
Outcomes ==
    { [status |-> "optimal", opt_time |-> 5], [status |-> "optimal", opt_time |-> 120],
      [status |-> "not_solved", opt_time |-> 5], [status |-> "raises", opt_time |-> 5] }

\* what make_dispatch_decision can yield: an exception, or a response that
\* passed CerebrasDispatchResponse(**result_data), which bounds neither
\* supply_amps nor confidence; ai_time: the milliseconds the call took
LlmResponses ==
    { [ok |-> FALSE, decisions |-> << >>, confidence |-> 0, ai_time |-> 20],
      [ok |-> TRUE, decisions |-> << Instruction(PyStr(2), F_1, VIRTUAL_ESP32) >>,
       confidence |-> 900, ai_time |-> 200],
      [ok |-> TRUE, decisions |-> << Instruction(PyStr(7), F_12, VIRTUAL_ESP32),
                                     Instruction(PyStr(2), F_m1, VIRTUAL_ESP32) >>,
       confidence |-> 1500, ai_time |-> 20] }

\* bodies of POST /dispatch
ManualCommands ==
    { << Instruction(PyStr(2), F_2_5, VIRTUAL_ESP32) >>,
      << Instruction(NonIntStr, F_1, VIRTUAL_ESP32) >> }

----------------------------------------------------------------------------
(* The backend as it runs: both link tasks, the device, POST /dispatch *)

Init == BackendInit /\ CodecIdle /\ OptIdle

OutFirstFrame ==
    /\ n_recv < MaxFrames
    /\ out_messages = << >>
    /\ UNCHANGED out_messages
    /\ \E msg \in OutMessages, outcome \in Outcomes :
          OutFirst(msg.text, DecodeMessage(msg), outcome)

OutStreamFrame ==
    /\ n_recv < MaxFrames
    /\ out_messages = << >>
    /\ UNCHANGED out_messages
    /\ \E msg \in OutMessages, outcome \in Outcomes :
          OutStream(msg.text, DecodeMessage(msg), outcome)

ManualDispatch ==
    /\ n_manual < MaxManual
    /\ \E nodes \in ManualCommands : manual_dispatch(nodes)

Next ==
    \/ OutResolve
    \/ OutConnect
    \/ OutFirstFrame
    \/ OutFirstTimeout
    \/ OutFirstError
    \/ OutStreamFrame
    \/ OutStreamEnd
    \/ OutStreamError
    \/ OutSleepDone
    \/ InCheck
    \/ InWake
    \/ InResolve
    \/ InConnect
    \/ InClosed
    \/ InSleepDone
    \/ ManualDispatch

Spec == Init /\ [][Next]_vars

----------------------------------------------------------------------------
(* The telemetry handler driven with decoded packets, as                   *)
(* connect_to_esp32_out drives it with what decode_telemetry returned      *)

\* frames handed to the handler in one run
MaxHandlerFrames == 2

\* the packets handed over: the device stamps the n-th frame with n seconds
HandlerPackets(n) ==
    { TelemetryPacket(1000 * n, nodes) :
        nodes \in { << >>,
                    << ConsumerNode2 >>,
                    << ConsumerNode7Heavy, ConsumerNode2, ConsumerNode3 >>,
                    << PowerNode1, ConsumerNode7, OtherNode9 >> } }

HandlerFirstPacket ==
    /\ n_recv < MaxHandlerFrames
    /\ out_messages = << >>
    /\ UNCHANGED out_messages
    /\ \E packet \in HandlerPackets(n_recv), outcome \in Outcomes :
          OutFirst(FALSE, Some(packet), outcome)

HandlerStreamPacket ==
    /\ n_recv < MaxHandlerFrames
    /\ out_messages = << >>
    /\ UNCHANGED out_messages
    /\ \E packet \in HandlerPackets(n_recv), outcome \in Outcomes :
          OutStream(FALSE, Some(packet), outcome)

LlmReply == \E response \in LlmResponses : LlmReturn(response)

HandlerNext ==
    \/ OutResolve
    \/ OutConnect
    \/ HandlerFirstPacket
    \/ OutFirstTimeout
    \/ OutFirstError
    \/ HandlerStreamPacket
    \/ OutStreamEnd
    \/ OutStreamError
    \/ OutSleepDone
    \/ LlmReply
    \/ InCheck
    \/ InWake
    \/ InResolve
    \/ InConnect
    \/ InClosed
    \/ InSleepDone

SpecHandler == Init /\ [][HandlerNext]_vars

----------------------------------------------------------------------------
(* The handler with the frames that arrive while it is suspended: the /out  *)
(* task awaits process_hardware_telemetry inside its message loop (lines    *)
(* 217, 231), so it reads no message until the handler has returned         *)

\* frames the device sends in one run
MaxQueueFrames == 3

\* every frame carries three consumers, enough for a cycle on the first one
QueuePackets(n) ==
    { TelemetryPacket(1000 * n, << ConsumerNode7Heavy, ConsumerNode2, ConsumerNode3 >>) }

\* the solver finds a plan or none
QueueOutcomes == { [status |-> "optimal", opt_time |-> 5], [status |-> "not_solved", opt_time |-> 5] }

\* the telemetry frames sent so far, read or waiting
QueueFramesSent == n_decoded + Len(out_messages)

QueueFirstPacket ==
    /\ n_recv < MaxQueueFrames
    /\ out_messages = << >>
    /\ UNCHANGED out_messages
    /\ \E packet \in QueuePackets(QueueFramesSent), outcome \in QueueOutcomes :
          OutFirst(FALSE, Some(packet), outcome)

QueueStreamPacket ==
    /\ n_recv < MaxQueueFrames
    /\ out_messages = << >>
    /\ UNCHANGED out_messages
    /\ \E packet \in QueuePackets(QueueFramesSent), outcome \in QueueOutcomes :
          OutStream(FALSE, Some(packet), outcome)

\* the first message of a connection is a text message, or a binary message
\* decode_telemetry returns None for
QueueFirstDropped ==
    /\ n_recv < MaxQueueFrames
    /\ out_messages = << >>
    /\ UNCHANGED out_messages
    /\ \E text \in BOOLEAN, outcome \in QueueOutcomes :
          OutFirst(text, None, outcome)

\* a later message of the connection is a text message, or a binary message
\* decode_telemetry returns None for
QueueStreamDropped ==
    /\ n_recv < MaxQueueFrames
    /\ out_messages = << >>
    /\ UNCHANGED out_messages
    /\ \E text \in BOOLEAN, outcome \in QueueOutcomes :
          OutStream(text, None, outcome)

\* a queue read from the wrong end
Dequeue_Newest(queue) ==
    [message |-> queue[Len(queue)], rest |-> SubSeq(queue, 1, Len(queue) - 1)]

\* websocket.recv on a connection with unread messages: the oldest one
Dequeue(queue) == [message |-> Head(queue), rest |-> Tail(queue)]

\* a frame that arrives during the LLM call and whose records are put into
\* the ring at once, as a second reader of /out would do
QueuePacketArrives_Stored ==
    /\ proc_pc = "llm"
    /\ hardware_websocket_out = "open"
    /\ n_recv + Len(out_messages) < MaxQueueFrames
    /\ \E packet \in QueuePackets(QueueFramesSent) :
          /\ out_messages' = Append(out_messages, packet)
          /\ telemetry_buffer' = DequeExtend(telemetry_buffer,
                                             ConsumerRecords(telemetry_to_json_compat(packet)),
                                             RingCapacity)
    /\ UNCHANGED << linkVars, procVars, telemetry_timestamps, cycleVars, sendVars, ghostVars,
                    countVars, cerebras_agent, codecVars, optVars >>

\* a frame arrives while the task is inside process_hardware_telemetry
\* (suspended in the LLM call): the connection keeps it until the task asks
\* for the next message
QueuePacketArrives ==
    /\ proc_pc = "llm"
    /\ hardware_websocket_out = "open"
    /\ n_recv + Len(out_messages) < MaxQueueFrames
    /\ \E packet \in QueuePackets(QueueFramesSent) :
          out_messages' = Append(out_messages, packet)
    /\ UNCHANGED << linkVars, handlerVars, countVars, cerebras_agent, codecVars, optVars >>

\* the message loop reads a frame that had arrived in the meantime
QueueQueuedPacket ==
    /\ out_messages # << >>
    /\ out_messages' = Dequeue(out_messages).rest
    /\ \E outcome \in QueueOutcomes :
          OutStream(FALSE, Some(Dequeue(out_messages).message), outcome)

QueueNext ==
    \/ OutResolve
    \/ OutConnect
    \/ QueueFirstPacket
    \/ OutFirstTimeout
    \/ OutFirstError
    \/ QueueFirstDropped
    \/ QueueStreamPacket
    \/ QueueStreamDropped
    \/ QueuePacketArrives
    \/ QueueQueuedPacket
    \/ OutStreamEnd
    \/ OutStreamError
    \/ OutSleepDone
    \/ LlmReply
    \/ InCheck
    \/ InWake
    \/ InResolve
    \/ InConnect
    \/ InClosed
    \/ InSleepDone

SpecQueue == Init /\ [][QueueNext]_vars

----------------------------------------------------------------------------
(* Cycles that fail: the solver finds nothing or schedule raises, the LLM   *)
(* call fails or returns instructions that cannot be encoded.  The link     *)
(* tasks run on: a sleep ends, a coroutine that can continue does           *)

\* frames the device sends in one run
MaxCycleFrames == 2

ConsumerNode4 == TelemetryNode(4, NODE_TYPE_CONSUMER, F_0, F_96)
ConsumerNode5 == TelemetryNode(5, NODE_TYPE_CONSUMER, F_0, F_96)

\* a frame carries five consumers (the second such frame fills the ring to
\* ten), or node 2 alone
CyclePackets(n) ==
    { TelemetryPacket(1000 * n, nodes) :
        nodes \in { << ConsumerNode7Heavy, ConsumerNode2, ConsumerNode3,
                       ConsumerNode4, ConsumerNode5 >>,
                    << ConsumerNode2 >> } }

CycleOutcomes ==
    { [status |-> "optimal", opt_time |-> 5], [status |-> "not_solved", opt_time |-> 5],
      [status |-> "raises", opt_time |-> 5] }

\* the longest instruction list whose count fits the frame's count byte
MaxCount == 255

\* what make_dispatch_decision yields here: an exception; a node id that is
\* no integer next to a valid one; a node id above 255 next to a valid one;
\* more instructions than the count byte can hold
CycleResponses ==
    { [ok |-> FALSE, decisions |-> << >>, confidence |-> 0, ai_time |-> 20],
      [ok |-> TRUE, decisions |-> << Instruction(PyStr(2), F_1, VIRTUAL_ESP32),
                                     Instruction(NonIntStr, F_1, VIRTUAL_ESP32) >>,
       confidence |-> 900, ai_time |-> 20],
      [ok |-> TRUE, decisions |-> << Instruction(PyStr(2), F_1, VIRTUAL_ESP32),
                                     Instruction(PyStr(300), F_1, VIRTUAL_ESP32) >>,
       confidence |-> 900, ai_time |-> 20],
      [ok |-> TRUE, decisions |-> [ i \in 1..(MaxCount + 1) |->
                                      Instruction(PyStr(2), F_1, VIRTUAL_ESP32) ],
       confidence |-> 900, ai_time |-> 20] }

CycleFirstPacket ==
    /\ n_recv < MaxCycleFrames
    /\ out_messages = << >>
    /\ UNCHANGED out_messages
    /\ \E packet \in CyclePackets(n_recv), outcome \in CycleOutcomes :
          OutFirst(FALSE, Some(packet), outcome)

CycleStreamPacket ==
    /\ n_recv < MaxCycleFrames
    /\ out_messages = << >>
    /\ UNCHANGED out_messages
    /\ \E packet \in CyclePackets(n_recv), outcome \in CycleOutcomes :
          OutStream(FALSE, Some(packet), outcome)

CycleLlmReply == \E response \in CycleResponses : LlmReturn(response)

CycleNext ==
    \/ OutResolve
    \/ OutConnect
    \/ CycleFirstPacket
    \/ OutFirstTimeout
    \/ OutFirstError
    \/ CycleStreamPacket
    \/ OutStreamEnd
    \/ OutStreamError
    \/ OutSleepDone
    \/ CycleLlmReply
    \/ InCheck
    \/ InWake
    \/ InResolve
    \/ InConnect
    \/ InClosed
    \/ InSleepDone

\* asyncio resumes a task whose sleep is over or whose awaited call has
\* returned; the device and the network are under no obligation
CycleFairness ==
    /\ WF_vars(OutSleepDone)
    /\ WF_vars(OutResolve)
    /\ WF_vars(InSleepDone)
    /\ WF_vars(InCheck)
    /\ WF_vars(InWake)
    /\ WF_vars(InResolve)

SpecCycle == Init /\ [][CycleNext]_vars /\ CycleFairness

----------------------------------------------------------------------------
(* The ring buffer under a long run of frames *)

\* records appended in one run
MaxRingRecords == 1300

RingFrameSizes == { 7, 255 }

\* the fulfillment of the g-th record of the run: 1 + g / 2^23
IndexFloat(g) == PyFloat(0, 127, g * FracUnit)

\* k consumer nodes, told apart by their fulfillment
RingPacket(k) ==
    TelemetryPacket(0, [ i \in 1..k |->
        TelemetryNode(1, NODE_TYPE_CONSUMER, F_2_5, IndexFloat(Len(ring_history) + i)) ])

RingOutcome == [status |-> "not_solved", opt_time |-> 5]

RingFirstPacket ==
    \E k \in RingFrameSizes :
        /\ Len(ring_history) + k <= MaxRingRecords
        /\ UNCHANGED out_messages
        /\ OutFirst(FALSE, Some(RingPacket(k)), RingOutcome)

RingStreamPacket ==
    \E k \in RingFrameSizes :
        /\ Len(ring_history) + k <= MaxRingRecords
        /\ UNCHANGED out_messages
        /\ OutStream(FALSE, Some(RingPacket(k)), RingOutcome)

RingInit == BackendIdle /\ CodecIdle /\ OptIdle

RingNext ==
    \/ OutResolve
    \/ OutConnect
    \/ OutSleepDone
    \/ RingFirstPacket
    \/ RingStreamPacket

SpecRing == RingInit /\ [][RingNext]_vars

----------------------------------------------------------------------------
(* MicrogridOptimizer.schedule step by step.  Amperes in thousandths.       *)

\* epochs planned (horizon)
Horizon == 3

EnergySource(id, max_supply_amps, cost_per_amp, ramp_limit_amps) ==
    [id |-> id, max_supply_amps |-> max_supply_amps,
     cost_per_amp |-> cost_per_amp, ramp_limit_amps |-> ramp_limit_amps]

\* ramp_limit_amps: None, or amperes
NoRampLimit == [limited |-> FALSE, amps |-> 0]
RampLimit(amps) == [limited |-> TRUE, amps |-> amps]

\* a forecaster that asks for one record more
UsesFourier_OneMore(history) == Len(history) >= min_history_points + 1

\* _generate_forecasts, line 176: enough history for _fourier_forecast
UsesFourier(history) == Len(history) >= min_history_points

\* _fourier_forecast, lines 211-220: it returns the flat forecast itself when
\* fft_vals[1:half_len] has no entry
FourierFallsBack(history) ==
    LET half_len == Len(history) \div 2
    IN  half_len <= 1 \/ Max(0, half_len - 1) = 0

ForecastPath(history) ==
    IF UsesFourier(history) /\ ~FourierFallsBack(history) THEN "spectral" ELSE "flat"

\* the demands of a history, in thousandths
Demands(history) == [ i \in 1..Len(history) |-> Milli(history[i].demand_amps) ]

SeqMin(seq) == CHOOSE x \in { seq[i] : i \in 1..Len(seq) } : \A i \in 1..Len(seq) : x <= seq[i]
SeqMax(seq) == CHOOSE x \in { seq[i] : i \in 1..Len(seq) } : \A i \in 1..Len(seq) : x >= seq[i]

\* lines 204-235, the signal rebuilt from the mean and the dominant
\* frequencies.  A constant history has no other component and comes back
\* unchanged; any other history is smoothed, and the smoothed signal can lie
\* anywhere between and somewhat beyond the extremes of the history.  The
\* levels it can take, the same at every position of the pattern:
FilteredLevels(history) ==
    IF ForecastPath(history) = "flat" THEN { 0 }
    ELSE LET lo == SeqMin(Demands(history))
             hi == SeqMax(Demands(history))
         IN  { lo - (hi - lo), lo, hi, hi + (hi - lo) }

\* line 248: np.exp(-np.arange(horizon) * 0.1), in thousandths
Weights == << 1000, 905, 819, 741, 670, 607, 549, 497, 449, 407 >>

\* np.full(self.horizon, latest_demand)
flat_forecast(latest_demand) == [ t \in 1..Horizon |-> Milli(latest_demand) ]

\* lines 237-252: the pattern blended with the latest demand, then
\* np.maximum(forecast, 0)
fourier_forecast(history, latest_demand, filtered) ==
    IF FourierFallsBack(history) THEN flat_forecast(latest_demand)
    ELSE [ t \in 1..Horizon |->
             Max(0, (Weights[t] * Milli(latest_demand) + (1000 - Weights[t]) * filtered) \div 1000) ]

\* _generate_forecasts: one forecast per node, in the order of node_states.
\* filtered[i]: the level of the rebuilt signal of the i-th node
generate_forecasts(sorted, filtered) ==
    LET order == NodeOrder(sorted)
    IN  [ i \in 1..Len(order) |->
            LET history == History(sorted, order[i])
                latest  == LatestDemand(sorted, order[i])
            IN  [ node   |-> order[i],
                  count  |-> Len(history),
                  path   |-> ForecastPath(history),
                  values |-> IF UsesFourier(history)
                             THEN fourier_forecast(history, latest, filtered[i])
                             ELSE flat_forecast(latest) ] ]

\* the levels the rebuilt signals of all nodes can take
FilteredSignals(sorted) ==
    LET order  == NodeOrder(sorted)
        levels == [ i \in 1..Len(order) |-> FilteredLevels(History(sorted, order[i])) ]
    IN  { f \in [ 1..Len(order) -> UNION { levels[i] : i \in 1..Len(order) } ] :
            \A i \in 1..Len(order) : f[i] \in levels[i] }

\* Plans are enumerated in steps of half an ampere
Step == Milli(F_0_5)

Multiples(limit) == { k * Step : k \in 0..(Max(0, limit) \div Step) }

OnGrid(forecasts) ==
    \A i \in 1..Len(forecasts), t \in 1..Horizon : forecasts[i].values[t] % Step = 0

\* the supply of an epoch over all nodes
EpochSupply(alloc) == Sum([ i \in 1..Len(alloc) |-> alloc[i] ])

\* what x can be in epoch t: x >= 0 (line 292), unmet = demand - x >= 0
\* (lines 305, 313-319), the source's capacity (lines 321-326)
EpochAllocations(forecasts, source, t) ==
    LET top == SeqMax([ i \in 1..Len(forecasts) |-> forecasts[i].values[t] ])
    IN  { alloc \in [ 1..Len(forecasts) -> Multiples(top) ] :
            /\ \A i \in 1..Len(forecasts) : alloc[i] <= forecasts[i].values[t]
            /\ EpochSupply(alloc) <= source.max_supply_amps }

\* a model that limits only the rise of the supply
RampOk_UpOnly(plan, source) ==
    source.ramp_limit_amps.limited =>
        \A t \in 2..Horizon :
            EpochSupply(plan[t]) - EpochSupply(plan[t - 1]) <= source.ramp_limit_amps.amps

\* lines 341-354: for a source with a ramp limit, both directions, from the
\* second epoch on
RampOk(plan, source) ==
    source.ramp_limit_amps.limited =>
        \A t \in 2..Horizon :
            /\ EpochSupply(plan[t]) - EpochSupply(plan[t - 1]) <= source.ramp_limit_amps.amps
            /\ EpochSupply(plan[t - 1]) - EpochSupply(plan[t]) <= source.ramp_limit_amps.amps

\* the plans that satisfy every constraint of _build_milp_model.  With one
\* source the activation and single-source constraints (lines 328-339) are
\* met by y = 1 wherever x > 0
FeasiblePlans(forecasts, source) ==
    LET allocs == [ t \in 1..Horizon |-> EpochAllocations(forecasts, source, t) ]
    IN  { plan \in [ 1..Horizon -> UNION { allocs[t] : t \in 1..Horizon } ] :
            /\ \A t \in 1..Horizon : plan[t] \in allocs[t]
            /\ RampOk(plan, source) }

\* an objective without the penalty for unmet demand
PlanCost_NoPenalty(plan, forecasts, source) ==
    Sum([ t \in 1..Horizon |->
          Sum([ i \in 1..Len(forecasts) |->
                ((source.cost_per_amp * (plan[t][i] \div Step)) * Step) \div 1000
                + (IF plan[t][i] > 0 THEN 100 ELSE 0) ]) ])

\* lines 356-381, in thousandths: cost_per_amp for what is supplied, 1000 per
\* ampere unmet, 0.1 for every x > 0
PlanCost(plan, forecasts, source) ==
    Sum([ t \in 1..Horizon |->
          Sum([ i \in 1..Len(forecasts) |->
                ((source.cost_per_amp * (plan[t][i] \div Step)) * Step) \div 1000
                + 1000 * (forecasts[i].values[t] - plan[t][i])
                + (IF plan[t][i] > 0 THEN 100 ELSE 0) ]) ])

SetMin(set) == CHOOSE x \in set : \A y \in set : x <= y

OptimalPlans(forecasts, source) ==
    LET feasible == FeasiblePlans(forecasts, source)
        least    == SetMin({ PlanCost(plan, forecasts, source) : plan \in feasible })
    IN  { plan \in feasible : PlanCost(plan, forecasts, source) = least }

\* _extract_dispatch: the supplies of epoch 1 above 1e-6, node by node
extract_dispatch(plan, forecasts, source) ==
    LET served == SelectSeq([ i \in 1..Len(forecasts) |-> i ], LAMBDA i : plan[1][i] > 0)
    IN  [ k \in 1..Len(served) |->
            Instruction(forecasts[served[k]].node, plan[1][served[k]], source.id) ]

----------------------------------------------------------------------------
(* Optimizer harness: one call of schedule, step by step *)

\* longest history of a node
MaxHistory == 5

DemandValues == { F_m1, F_0, F_1 }

\* n records of node 7, one per second: n - 1 times the demand a, then b
History7(n, a, b) ==
    [ k \in 1..n |->
        DemandRecord(Seconds(1000 * k), PyStr(7), IF k < n THEN a ELSE b, F_96) ]

\* the histories handed to schedule: none, a history of node 7, or one record
\* of node 7 and one of node 2 that asks for 1 A
OptRecords ==
    { << >> }
    \cup { History7(n, a, b) : n \in 1..MaxHistory, a \in DemandValues, b \in DemandValues }
    \cup { History7(1, b, b) \o << DemandRecord(Seconds(1000), PyStr(2), F_1, F_96) >> :
            b \in DemandValues }

\* ENERGY_SOURCES of main.py
VirtualSource == EnergySource(VIRTUAL_ESP32, MaxSupplyMilli, 100, NoRampLimit)

\* the sources handed to schedule: that of main.py, one of 1.5 A, one that may
\* change by 0.5 A per epoch, one that costs 999.95 per ampere
OptSources ==
    { VirtualSource,
      EnergySource("SMALL", 3 * Step, 100, NoRampLimit),
      EnergySource("SLOW_RAMP", MaxSupplyMilli, 100, RampLimit(Step)),
      EnergySource("DEAR", MaxSupplyMilli, 999950, NoRampLimit) }

OptInit ==
    /\ BackendIdle
    /\ CodecIdle
    /\ o_stage = "input"
    /\ o_records \in OptRecords
    /\ o_source \in OptSources
    /\ o_forecasts = << >>
    /\ o_status = "none"
    /\ o_plan = << >>
    /\ o_dispatch = << >>

\* lines 100-102: nothing to schedule
OptEmpty ==
    /\ o_stage = "input"
    /\ o_records = << >>
    /\ o_stage' = "done"
    /\ o_dispatch' = << >>
    /\ UNCHANGED << o_records, o_source, o_forecasts, o_status, o_plan, backendVars, codecVars >>

\* lines 104-110: _aggregate_node_states and _generate_forecasts
OptForecast ==
    /\ o_stage = "input"
    /\ o_records # << >>
    /\ \E filtered \in FilteredSignals(SortedByTimestamp(o_records)) :
          o_forecasts' = generate_forecasts(SortedByTimestamp(o_records), filtered)
    /\ o_stage' = "forecast"
    /\ UNCHANGED << o_records, o_source, o_status, o_plan, o_dispatch, backendVars, codecVars >>

\* line 118: the solver's time limit in milliseconds
timeout_ms == 500

\* lines 112-122: the solver stops with an optimal plan, or at its time limit
\* with a plan that satisfies the constraints
OptSolve ==
    /\ o_stage = "forecast"
    /\ OnGrid(o_forecasts)
    /\ FeasiblePlans(o_forecasts, o_source) # { }
    /\ \E status \in { "optimal", "feasible" } :
          /\ o_status' = status
          /\ o_plan' \in IF status = "optimal"
                          THEN OptimalPlans(o_forecasts, o_source)
                          ELSE FeasiblePlans(o_forecasts, o_source)
    /\ o_stage' = "solved"
    /\ UNCHANGED << o_records, o_source, o_forecasts, o_dispatch, backendVars, codecVars >>

\* no plan satisfies the constraints
OptInfeasible ==
    /\ o_stage = "forecast"
    /\ OnGrid(o_forecasts)
    /\ FeasiblePlans(o_forecasts, o_source) = { }
    /\ o_status' = "infeasible"
    /\ o_stage' = "infeasible"
    /\ UNCHANGED << o_records, o_source, o_forecasts, o_plan, o_dispatch, backendVars, codecVars >>

\* line 126: _extract_dispatch
OptExtract ==
    /\ o_stage = "solved"
    /\ o_dispatch' = extract_dispatch(o_plan, o_forecasts, o_source)
    /\ o_stage' = "done"
    /\ UNCHANGED << o_records, o_source, o_forecasts, o_status, o_plan, backendVars, codecVars >>

ScheduleNext ==
    \/ OptEmpty
    \/ OptForecast
    \/ OptSolve
    \/ OptInfeasible
    \/ OptExtract

SpecSchedule == OptInit /\ [][ScheduleNext]_vars

----------------------------------------------------------------------------
(* Several sources.  Without ramp limits no constraint and no term of the   *)
(* objective links two epochs, so a plan is optimal exactly when each of    *)
(* its epochs is: epoch 1, the one _extract_dispatch reads, is solved alone *)

\* supply[s][i]: what source s gives node i (x of lines 286-293)
SuppliersOf(supply, i) == { s \in DOMAIN supply : supply[s][i] > 0 }

\* a model without the single-source constraint: every source may supply
\* the node
SingleSourcePerNode_Relaxed(supply, n_nodes) ==
    \A i \in 1..n_nodes : Cardinality(SuppliersOf(supply, i)) <= Len(supply)

\* lines 328-339: x <= BIG_M * y with binary y and sum_s y <= 1.  BIG_M is
\* twice the largest forecast and x never exceeds the node's demand, so a
\* fitting y exists exactly when at most one source supplies the node
SingleSourcePerNode(supply, n_nodes) ==
    \A i \in 1..n_nodes : Cardinality(SuppliersOf(supply, i)) <= 1

\* what node i receives from all sources
NodeSupply(supply, i) == Sum([ s \in 1..Len(supply) |-> supply[s][i] ])

\* what x can be in epoch t with several sources: demand satisfaction with
\* unmet >= 0 (lines 305, 313-319), capacity of each source (321-326), one
\* source per node (328-339)
SourceAllocations(forecasts, sources, t) ==
    LET top == SeqMax([ i \in 1..Len(forecasts) |-> forecasts[i].values[t] ])
    IN  { supply \in [ 1..Len(sources) -> [ 1..Len(forecasts) -> Multiples(top) ] ] :
            /\ \A i \in 1..Len(forecasts) : NodeSupply(supply, i) <= forecasts[i].values[t]
            /\ \A s \in 1..Len(sources) : EpochSupply(supply[s]) <= sources[s].max_supply_amps
            /\ SingleSourcePerNode(supply, Len(forecasts)) }

\* the terms of the objective that belong to epoch t (lines 356-381), in
\* thousandths; y is 1 only where x > 0, as every y costs 0.1
AllocationCost(supply, forecasts, sources, t) ==
    Sum([ i \in 1..Len(forecasts) |->
          1000 * (forecasts[i].values[t] - NodeSupply(supply, i))
          + Sum([ s \in 1..Len(sources) |->
                  ((sources[s].cost_per_amp * (supply[s][i] \div Step)) * Step) \div 1000
                  + (IF supply[s][i] > 0 THEN 100 ELSE 0) ]) ])

OptimalAllocations(forecasts, sources, t) ==
    LET feasible == SourceAllocations(forecasts, sources, t)
        least    == SetMin({ AllocationCost(supply, forecasts, sources, t) : supply \in feasible })
    IN  { supply \in feasible : AllocationCost(supply, forecasts, sources, t) = least }

\* _extract_dispatch, lines 428-438: for n in nodes, for s in sources, one
\* instruction wherever the supply exceeds 1e-6
RECURSIVE extract_dispatch_from(_, _, _, _)
extract_dispatch_from(supply, forecasts, sources, i) ==
    IF i > Len(forecasts) THEN << >>
    ELSE LET suppliers == SelectSeq([ s \in 1..Len(sources) |-> s ], LAMBDA s : supply[s][i] > 0)
         IN  [ k \in 1..Len(suppliers) |->
                 Instruction(forecasts[i].node, supply[suppliers[k]][i], sources[suppliers[k]].id) ]
             \o extract_dispatch_from(supply, forecasts, sources, i + 1)

\* records of one frame: node 7, and node 2 or not
AssignRecords ==
    { << DemandRecord(Seconds(1000), PyStr(7), a, F_96) >> : a \in { F_0, F_1, F_2_5 } }
    \cup { << DemandRecord(Seconds(1000), PyStr(7), a, F_96),
              DemandRecord(Seconds(1000), PyStr(2), b, F_96) >> :
            a \in { F_0, F_1, F_2_5 }, b \in { F_0_5, F_1 } }

\* two sources out of: that of main.py, one of 1.5 A, one of 2 A at half the price
AssignSources ==
    LET pool == { VirtualSource,
                  EnergySource("SMALL", 3 * Step, 100, NoRampLimit),
                  EnergySource("MEDIUM", 4 * Step, 50, NoRampLimit) }
    IN  { pair \in pool \X pool : pair[1] # pair[2] }

AssignInit ==
    /\ BackendIdle
    /\ CodecIdle
    /\ o_stage = "input"
    /\ o_records \in AssignRecords
    /\ o_source \in AssignSources
    /\ o_forecasts = << >>
    /\ o_status = "none"
    /\ o_plan = << >>
    /\ o_dispatch = << >>

\* lines 112-122 for epoch 1: an optimal allocation, or at the time limit one
\* that satisfies the constraints
AssignSolve ==
    /\ o_stage = "forecast"
    /\ \E status \in { "optimal", "feasible" } :
          /\ o_status' = status
          /\ o_plan' \in IF status = "optimal"
                          THEN OptimalAllocations(o_forecasts, o_source, 1)
                          ELSE SourceAllocations(o_forecasts, o_source, 1)
    /\ o_stage' = "solved"
    /\ UNCHANGED << o_records, o_source, o_forecasts, o_dispatch, backendVars, codecVars >>

\* line 126: _extract_dispatch
AssignExtract ==
    /\ o_stage = "solved"
    /\ o_dispatch' = extract_dispatch_from(o_plan, o_forecasts, o_source, 1)
    /\ o_stage' = "done"
    /\ UNCHANGED << o_records, o_source, o_forecasts, o_status, o_plan, backendVars, codecVars >>

AssignNext ==
    \/ OptForecast
    \/ AssignSolve
    \/ AssignExtract

SpecAssign == AssignInit /\ [][AssignNext]_vars

----------------------------------------------------------------------------
(* Properties of the codec *)

EncodedFromPacket == c_from = "packet" /\ c_stage >= 1
RoundTripped == c_from = "packet" /\ c_stage = 2
DecodedFromBytes == c_from = "bytes" /\ c_stage >= 1
Reencoded == c_from = "bytes" /\ c_stage = 2

\* C4: for every valid telemetry packet P, encode_telemetry(P) succeeds with
\* 9 + 10*K bytes and decode_telemetry of those bytes returns a packet equal
\* to P, never a failure.
C4_TelemetryRoundTrip ==
    (c_kind = "telemetry" /\ c_from = "packet") =>
        /\ c_stage >= 1 => c_enc.err = "none" /\ Len(c_enc.data) = 9 + 10 * Len(c_packet.nodes)
        /\ c_stage = 2 => c_dec.ok /\ TelemetryPacketEq(c_dec.packet, c_packet)

C7_ReencodeIsIdentity ==
    Reencoded => c_enc.err = "none" /\ c_enc.data = c_bytes

\* the inputs C8 says are rejected
C8_Rejected(kind, b) ==
    LET magic == IF kind = "telemetry" THEN TELEMETRY_MAGIC ELSE DISPATCH_MAGIC
        min   == IF kind = "telemetry" THEN 9 ELSE 5
        size  == IF kind = "telemetry" THEN 10 ELSE 6
    IN  \/ Len(b) < min
        \/ SubSeq(b, 1, 4) # pack_I(magic)
        \/ Len(b) # min + size * b[min]

\* C8: decode_telemetry returns None for every input that is shorter than 9
\* bytes, does not start with the GRID magic, or whose length is not 9 + 10*K
\* for its count byte K, and returns a packet for every other input;
\* decode_dispatch likewise with DISP, 5 bytes and 5 + 6*K.
C8_DecodeContract ==
    DecodedFromBytes => (c_dec.ok <=> ~C8_Rejected(c_kind, c_bytes))

----------------------------------------------------------------------------
(* Properties of the link tasks and of the telemetry handler *)

\* C1: no dispatch frame is sent to the device before at least one telemetry
\* frame has been decoded since startup, whoever sends it (the scheduling
\* cycle or the manual dispatch handler).
C1_NoDispatchBeforeTelemetry ==
    /\ Len(sent) > 0 => n_decoded >= 1
    /\ Len(dispatch_timestamps) > 0 => n_decoded >= 1

C1_Witness ==
    /\ n_decoded >= 1
    /\ Len(sent) >= 1
    /\ sent[1].by = "manual"
    /\ hardware_websocket_in = "open"

\* C2: connect_to_esp32_in resolves no address and opens no /in connection
\* before the readiness event has been set, and the event is set only after a
\* telemetry frame has been decoded.
C2_InWaitsForReady ==
    /\ in_pc \in { "resolve", "connect", "open", "sleep" } => out_ready_event
    /\ hardware_websocket_in # "None" => out_ready_event
    /\ out_ready_event => n_decoded >= 1

C2_Witness ==
    /\ in_pc = "open"
    /\ hardware_websocket_in = "open"
    /\ out_ready_event

\* C3 as stated: the readiness event is set as soon as the first telemetry
\* frame has been decoded and handled, whether that frame was the first
\* message of a connection or a later one, and once set it is never cleared.
C3_ReadyOnFirstDecode ==
    /\ []((n_decoded >= 1 /\ proc_pc = "idle") => out_ready_event)
    /\ [][out_ready_event => out_ready_event']_vars

\* the last n items of a sequence
Last(seq, n) == SubSeq(seq, Len(seq) - n + 1, Len(seq))

\* C9: the ring buffer never holds more than 1000 records, and it holds
\* exactly the most recent min(total, 1000) records ever appended, in the
\* order of their arrival (the oldest are the ones dropped).
C9_RingKeepsNewest ==
    /\ Len(telemetry_buffer) <= RingCapacity
    /\ telemetry_buffer =
         Last(ring_history,
              IF Len(ring_history) < RingCapacity THEN Len(ring_history) ELSE RingCapacity)

C9_Witness ==
    /\ Len(ring_history) > RingCapacity + 255
    /\ Len(telemetry_buffer) = RingCapacity
    /\ telemetry_buffer[1] = ring_history[Len(ring_history) - RingCapacity + 1]
    /\ telemetry_buffer[1] # ring_history[1]

\* the positions of the consumer nodes of a packet, in ascending order
RECURSIVE ConsumerPositions(_, _)
ConsumerPositions(packet, i) ==
    IF i > Len(packet.nodes) THEN << >>
    ELSE (IF packet.nodes[i].type = NODE_TYPE_CONSUMER THEN << i >> ELSE << >>)
         \o ConsumerPositions(packet, i + 1)

\* what C10 expects to be appended for a packet
C10_Expected(packet) ==
    LET at == ConsumerPositions(packet, 1)
    IN  [ j \in 1..Len(at) |->
            [ timestamp |-> [num |-> packet.timestamp, den |-> 1000],
              node_id |-> [numeric |-> TRUE, n |-> packet.nodes[at[j]].id],
              demand_amps |-> packet.nodes[at[j]].demand,
              fulfillment |-> packet.nodes[at[j]].fulfillment ] ]

\* C10: every decoded telemetry frame, first of its connection or streamed,
\* appends to the ring buffer exactly one record per node of type consumer
\* (timestamp in seconds, node id as a string, demand, fulfillment), in frame
\* order, and nothing for any other node.
C10_OneRecordPerConsumer ==
    [][n_decoded' = n_decoded + 1 =>
          /\ telemetry_buffer' = telemetry_buffer \o C10_Expected(fed')
          /\ ring_history' = ring_history \o C10_Expected(fed')]_vars

C10_Witness ==
    /\ n_decoded = 2
    /\ out_pc = "stream"
    /\ Len(fed.nodes) = 3
    /\ \E i \in 1..3 : fed.nodes[i].type = NODE_TYPE_POWER
    /\ \E i \in 1..3 : fed.nodes[i].type \notin { NODE_TYPE_POWER, NODE_TYPE_CONSUMER }
    /\ Len(telemetry_buffer) = 4
    /\ Last(telemetry_buffer, 1) = C10_Expected(fed)
    /\ telemetry_buffer[1].node_id # telemetry_buffer[2].node_id

\* C11: a decoded frame after which the ring holds fewer than 3 records runs
\* no optimization, calls no LLM, sends no dispatch frame and leaves the
\* cycle's windows and metrics as they were.
C11_NoCycleBelowThreeRecords ==
    [][(n_decoded' = n_decoded + 1 /\ Len(telemetry_buffer') < 3) =>
          /\ n_cycles' = n_cycles
          /\ n_llm' = n_llm
          /\ proc_pc' = "idle"
          /\ sent' = sent
          /\ dispatch_timestamps' = dispatch_timestamps
          /\ UNCHANGED cycleVars]_vars

C11_Witness ==
    /\ n_decoded = 2
    /\ Len(telemetry_buffer) = 2
    /\ hardware_websocket_in = "open"
    /\ n_cycles = 0
    /\ sent = << >>

\* a cycle runs to its end in this step
CycleCompletes == last_cycle' # last_cycle

\* the instructions and the confidence a completed cycle has to come to
C12_Instructions(cycle) ==
    IF cycle.escalated /\ cycle.response.ok THEN cycle.response.decisions ELSE cycle.milp

C12_Confidence(cycle) ==
    IF cycle.escalated /\ cycle.response.ok THEN cycle.response.confidence
    ELSE cycle.milp_confidence

\* C12: a cycle calls the LLM exactly once if its deterministic confidence is
\* below 0.5 and a client is configured, and never otherwise; when the call
\* succeeds the frame sent and the confidence reported are the LLM's, and
\* without a call they are the MILP's.
C12_EscalationGate ==
    [][/\ (n_llm' = n_llm + 1) \/ (n_llm' = n_llm)
       /\ (n_llm' = n_llm + 1) => (proc_pc = "idle" /\ proc_pc' = "llm"
                                    /\ n_cycles' = n_cycles + 1 /\ ~CycleCompletes)
       /\ (proc_pc = "llm" /\ proc_pc' # "llm") => (CycleCompletes /\ last_cycle'.escalated)
       /\ CycleCompletes =>
            /\ last_cycle'.escalated <=> (last_cycle'.milp_confidence < 500 /\ cerebras_agent)
            /\ last_cycle'.escalated <=> proc_pc = "llm"
            /\ latest_metrics'.confidence_score = C12_Confidence(last_cycle')
            /\ latest_metrics'.dispatch_count = Len(C12_Instructions(last_cycle'))
            /\ (last_cycle'.escalated /\ last_cycle'.response.ok) =>
                   confidence_scores'[Len(confidence_scores')] = last_cycle'.response.confidence
            /\ IF /\ hardware_websocket_in = "open"
                  /\ DispatchFrame(C12_Instructions(last_cycle')).err = "none"
               THEN sent' = Append(sent, [by |-> "cycle", frame |-> last_cycle'.frame,
                                          data |-> DispatchFrame(C12_Instructions(last_cycle')).data,
                                          behind |-> Len(out_messages)])
               ELSE sent' = sent]_vars

\* an escalated cycle whose call succeeded has sent the LLM's decisions
C12_Witness ==
    /\ last_cycle.frame > 0
    /\ last_cycle.escalated
    /\ last_cycle.response.ok
    /\ last_cycle.response.decisions # last_cycle.milp
    /\ Len(sent) > 0
    /\ sent[Len(sent)].frame = last_cycle.frame
    /\ sent[Len(sent)].data = DispatchFrame(last_cycle.response.decisions).data
    /\ latest_metrics.confidence_score = 900

C14_ConfidenceInUnitInterval ==
    /\ \A i \in 1..Len(confidence_scores) :
          confidence_scores[i] >= 0 /\ confidence_scores[i] <= 1000
    /\ latest_metrics.set =>
          latest_metrics.confidence_score >= 0 /\ latest_metrics.confidence_score <= 1000

\* C15 as stated: after any cycle that emits a dispatch, from the MILP or
\* from the LLM, the sum of supply_amps over its instructions is at most the
\* sum of max_supply_amps over the configured sources (10 A).
C15_DispatchWithinCapacity ==
    (last_cycle.frame > 0 /\ last_cycle.instructions # << >>) =>
        Sum([ i \in 1..Len(last_cycle.instructions) |->
                Milli(last_cycle.instructions[i].supply_amps) ]) <= 10000

\* 0 <= x <= 1 for a float x
InUnitInterval(x) ==
    \/ IsZero(x)
    \/ x.s = 0 /\ x.e < 127
    \/ x.s = 0 /\ x.e = 127 /\ x.m = 0

\* C16 as stated: every supply value carried in a dispatch frame sent to the
\* device lies in [0,1], whatever the instruction's amps (MILP values up to
\* the source capacity, LLM-returned values, manual commands).
C16_SupplyClamped ==
    \A i \in 1..Len(sent) :
        LET frame == decode_dispatch(sent[i].data)
        IN  /\ frame.ok
            /\ \A j \in 1..Len(frame.packet.nodes) : InUnitInterval(frame.packet.nodes[j].supply)

\* C17 as stated: a cycle that has not produced its dispatch by the cycle
\* deadline (2 epochs, 83 ms, after its triggering frame) is abandoned: it
\* sends no dispatch frame, then or later.
C17_LateCycleAbandoned ==
    [][(CycleCompletes /\ last_cycle'.elapsed > 83) =>
          /\ sent' = sent
          /\ dispatch_timestamps' = dispatch_timestamps]_vars

\* a frame is added to the unread messages of /out in this step
FrameArrivesInFlight == Len(out_messages') > Len(out_messages)

\* the /out task reads a frame that had arrived while a cycle was in flight
FrameReadLater == Len(out_messages') < Len(out_messages)

\* C18 as stated: a telemetry frame that arrives while a cycle is in flight
\* only appends its records to the ring, at once, and never starts or queues
\* a cycle of its own.
C18_FrameInFlightOnlyAppends ==
    [][/\ FrameArrivesInFlight =>
            LET data == telemetry_to_json_compat(out_messages'[Len(out_messages')])
            IN  telemetry_buffer' = DequeExtend(telemetry_buffer, ConsumerRecords(data), RingCapacity)
       /\ FrameReadLater => n_cycles' = n_cycles]_vars

\* the dispatch frames the scheduler sent, in the order sent
CycleFrames == SelectSeq(sent, LAMBDA frame : frame.by = "cycle")

\* C19: the frame processed k-th is the frame that arrived k-th (the device
\* stamps its n-th frame with n seconds), and the dispatch frames of the
\* scheduler are in the order of the telemetry frames they were computed from,
\* also when a cycle waited on the LLM while later frames arrived.
C19_FramesInOrder ==
    /\ [][n_decoded' = n_decoded + 1 => fed'.timestamp = 1000 * n_decoded]_vars
    /\ [](\A i, j \in 1..Len(CycleFrames) : i < j => CycleFrames[i].frame < CycleFrames[j].frame)

\* the dispatch of an escalated cycle was sent while a later frame was waiting
\* unread, and the dispatch of that later frame followed it
C19_Witness ==
    /\ n_decoded = MaxQueueFrames
    /\ \E i \in 1..(Len(sent) - 1) :
          /\ sent[i].by = "cycle"
          /\ sent[i].behind >= 1
          /\ sent[i + 1].by = "cycle"
          /\ sent[i + 1].frame = sent[i].frame + 1

\* the positions of the /out task at which it has or is opening a connection
OutConnected == { "connect", "first", "stream" }

\* the same for the /in task
InConnected == { "connect", "open" }

\* C20 as stated: whenever a link leaves its connection (connect failure, read
\* error, clean close, timeout or text frame while the first /out frame is
\* awaited), it waits the 5 s backoff before the next resolve/connect attempt.
C20_BackoffAfterDisconnect ==
    [][/\ (out_pc \in OutConnected /\ out_pc' \notin OutConnected) => out_pc' = "sleep"
       /\ (in_pc \in InConnected /\ in_pc' \notin InConnected) => in_pc' = "sleep"]_vars

\* C21 as stated: a link's socket handle is cleared whenever the link leaves
\* the Open state, so that in every reachable state the /out (resp. /in)
\* handle is non-empty only while that link is Open, and the handle a send
\* would use is never a closed socket.
C21_HandleOnlyWhileOpen ==
    /\ hardware_websocket_out # "None" => out_pc \in { "first", "stream" }
    /\ hardware_websocket_in # "None" => in_pc = "open"
    /\ hardware_websocket_in # "closed"

----------------------------------------------------------------------------
(* Properties of the optimizer *)

Forecasted == o_stage \in { "forecast", "solved", "infeasible", "done" }

\* C22 as stated: for every node and every horizon index the forecast handed
\* to the MILP builder is non-negative, on the flat path and on the spectral
\* path, whatever demands the history holds.
C22_ForecastNonNegative ==
    Forecasted =>
        \A i \in 1..Len(o_forecasts), t \in 1..Horizon : o_forecasts[i].values[t] >= 0

\* the history of the i-th forecast node
HistoryOf(i) == History(SortedByTimestamp(o_records), o_forecasts[i].node)

\* C23: a node with fewer than 5 records (in particular exactly 4) gets the
\* flat forecast, H copies of its latest demand; a node with 5 or more (in
\* particular exactly 5) gets the forecast of the spectral routine, the
\* rebuilt signal blended with the latest demand, which does not fall back to
\* the flat forecast.
C23_ForecastPathByLength ==
    Forecasted =>
        \A i \in 1..Len(o_forecasts) :
            LET history == HistoryOf(i)
                latest  == history[Len(history)].demand_amps
            IN  /\ Len(history) <= 4 =>
                    /\ o_forecasts[i].path = "flat"
                    /\ o_forecasts[i].values = [ t \in 1..Horizon |-> Milli(latest) ]
                /\ Len(history) >= 5 =>
                    /\ o_forecasts[i].path = "spectral"
                    /\ \E level \in FilteredLevels(history) :
                          o_forecasts[i].values =
                              [ t \in 1..Horizon |->
                                  Max(0, (Weights[t] * Milli(latest) + (1000 - Weights[t]) * level) \div 1000) ]

\* a node with exactly 5 records whose forecast is not the flat one
C23_Witness ==
    /\ o_stage = "forecast"
    /\ Len(o_forecasts) = 1
    /\ Len(HistoryOf(1)) = 5
    /\ o_forecasts[1].path = "spectral"
    /\ o_forecasts[1].values # flat_forecast(HistoryOf(1)[5].demand_amps)

\* what the dispatch of epoch 1 supplies in all
DispatchTotal == Sum([ k \in 1..Len(o_dispatch) |-> o_dispatch[k].supply_amps ])

\* C24 as stated: with a single source of ramp limit r and a node whose demand
\* steps from 0 in one frame to d > r in the next, the epoch-1 dispatch for
\* the frame carrying the step supplies at most r amps.
C24_StepLimitedInEpochOne ==
    ( /\ o_stage = "done"
      /\ o_status = "optimal"
      /\ o_source.ramp_limit_amps.limited
      /\ Len(o_records) = 2
      /\ Len(o_forecasts) = 1
      /\ Milli(o_records[1].demand_amps) = 0
      /\ Milli(o_records[2].demand_amps) > o_source.ramp_limit_amps.amps )
    => DispatchTotal <= o_source.ramp_limit_amps.amps

C26_Case ==
    /\ o_stage = "done"
    /\ o_status = "optimal"
    /\ ~o_source.ramp_limit_amps.limited
    /\ \A i \in 1..Len(o_forecasts) :
          o_forecasts[i].path = "flat" /\ o_forecasts[i].values[1] >= 1000

\* what C26 promises: min(sum of demands, capacity) is served in epoch 1, no
\* node gets more than its demand, demand stays unmet only when the capacity
\* binds
C26_Served ==
    LET demand == Sum([ i \in 1..Len(o_forecasts) |-> o_forecasts[i].values[1] ])
    IN  /\ DispatchTotal = Min(demand, o_source.max_supply_amps)
        /\ \A k \in 1..Len(o_dispatch) :
              \E i \in 1..Len(o_forecasts) :
                  /\ o_forecasts[i].node = o_dispatch[k].id
                  /\ o_dispatch[k].supply_amps <= o_forecasts[i].values[1]
        /\ DispatchTotal < demand => DispatchTotal = o_source.max_supply_amps

\* C26 as stated: the above for every cost per amp below the unmet penalty of
\* 1000.
C26_PenaltyDominates ==
    (C26_Case /\ o_source.cost_per_amp < 1000000) => C26_Served

\* C26 amended: the above when demands and capacity are multiples of an amount
\* g (here 0.5 A) that is worth more unmet than served and switched on:
\* (1000 - cost per amp) * g > 0.1.
C26_PenaltyDominatesSwitching ==
    (C26_Case /\ ((1000000 - o_source.cost_per_amp) * Step) \div 1000 > 100) => C26_Served

\* two nodes of 1 A each on a source of 1.5 A: 1.5 A served
C26_Witness ==
    /\ C26_Case
    /\ Len(o_forecasts) = 2
    /\ o_source.max_supply_amps = 3 * Step
    /\ DispatchTotal = 3 * Step
    /\ Len(o_dispatch) = 2

\* what the response schema asks of a response: confidence in [0,1] and no
\* negative supply_amps
WithinSchema(response) ==
    /\ response.confidence >= 0
    /\ response.confidence <= 1000
    /\ \A k \in 1..Len(response.decisions) : Milli(response.decisions[k].supply_amps) >= 0

\* C27 as stated: a response with a negative supply_amps or a confidence
\* outside [0,1] is rejected and treated as an escalation failure: the cycle
\* ends with the MILP dispatch and the deterministic confidence.
C27_ResponseOutsideSchemaRejected ==
    [][(CycleCompletes /\ last_cycle'.escalated /\ ~WithinSchema(last_cycle'.response)) =>
          /\ last_cycle'.instructions = last_cycle'.milp
          /\ last_cycle'.confidence = last_cycle'.milp_confidence
          /\ cerebras_escalations' = cerebras_escalations]_vars

\* C28 as stated: the scheduling cycle is the only sender on the /in socket;
\* no frame on it comes from another task or handler, in particular not from
\* the manual dispatch handler.
C28_SchedulerOnlySender ==
    \A i \in 1..Len(sent) : sent[i].by = "cycle"

----------------------------------------------------------------------------
(* Properties of the messages that are not telemetry *)

\* a step of the /out task that receives a message and does not decode it
MessageDropped == n_recv' = n_recv + 1 /\ n_decoded' = n_decoded

\* the malformed binary frames received so far
n_malformed == n_recv - n_decoded - n_text

\* C29: a message received on /out that is a text message, or a binary
\* message that fails to decode, leaves the ring buffer and every metrics
\* window unchanged and starts no optimization cycle and no dispatch
C29_DroppedMessageHasNoEffect ==
    [][MessageDropped =>
          UNCHANGED << procVars, ringVars, cycleVars, sendVars, ghostVars, cerebras_agent, fed >>]_vars

\* a telemetry frame was processed as message 1, then a text message and a
\* malformed frame were dropped, and the windows still hold what frame 1 left
C29_Witness ==
    /\ n_recv = 3
    /\ n_decoded = 1
    /\ n_text = 1
    /\ n_malformed = 1
    /\ telemetry_timestamps = << 1 >>
    /\ Len(telemetry_buffer) = 3
    /\ n_cycles = 1

\* a step of the /out task that receives a binary message and fails to
\* decode it
MalformedFrame == MessageDropped /\ n_text' = n_text

\* a step that decodes a frame after a malformed one has been received
DecodedAfterMalformed == n_decoded' = n_decoded + 1 /\ n_malformed >= 1

----------------------------------------------------------------------------
(* Properties of a cycle's outcome *)

\* C31 as stated: a cycle that ends with an empty instruction list sends
\* nothing on /in, not even a frame with node count 0
C31_SilenceWithoutDispatch ==
    [][(CycleCompletes /\ last_cycle'.instructions = << >>) => UNCHANGED sendVars]_vars

\* the records of the frame the cycle runs on: those with the latest timestamp
LatestFrame ==
    SelectSeq(o_records, LAMBDA r :
        \A k \in 1..Len(o_records) : o_records[k].timestamp.num <= r.timestamp.num)

\* calculate_confidence_score of a cycle whose solver ran into its time limit
C32_Confidence ==
    WeightedConfidence(timeout_ms,
                       Sum([ i \in 1..Len(LatestFrame) |-> Milli(LatestFrame[i].demand_amps) ]),
                       DispatchTotal,
                       VarianceTerm(RecentDemands(o_records)))

\* C32 as stated: when the solver returns a status other than optimal in a
\* cycle (the ring holds three records or more), the deterministic confidence
\* of the cycle is below 0.5
C32_NonOptimalIsLowConfidence ==
    (o_stage = "done" /\ o_status = "feasible" /\ EnoughRecords(o_records))
    => C32_Confidence < HalfConfidence

\* steps in which a cycle fails: schedule raises; the LLM call raises; the
\* instructions cannot be converted or encoded
ScheduleRaised == n_cycles' = n_cycles + 1 /\ proc_pc' = "idle" /\ last_cycle' = last_cycle

EscalationFailed == proc_pc = "llm" /\ proc_pc' = "idle" /\ ~last_cycle'.response.ok

SendFailed == CycleCompletes /\ DispatchFrame(last_cycle'.instructions).err # "none"

CycleFails == ScheduleRaised \/ EscalationFailed \/ SendFailed

\* C33: a failure inside a cycle leaves the /out connection open and the
\* /out task at the receive of its message loop; every frame decoded is
\* handed to the handler, whatever happened to the cycles before it; and a
\* link task that has lost its connection gets to its next connect attempt
C33_CycleFailureIsNotFatal ==
    /\ [][CycleFails =>
             /\ hardware_websocket_out = "open"
             /\ hardware_websocket_out' = "open"
             /\ out_pc' = "stream"
             /\ proc_pc' = "idle"]_vars
    /\ [][n_decoded' = n_decoded + 1 =>
             /\ ring_history' = ring_history \o ConsumerRecords(telemetry_to_json_compat(fed'))
             /\ telemetry_timestamps' = DequeAppend(telemetry_timestamps, Clock', TimestampWindow)]_vars
    /\ (out_pc \in { "sleep", "resolve" }) ~> (out_pc = "connect")
    /\ (in_pc = "sleep") ~> (in_pc = "connect")
    /\ (in_pc = "check" /\ hardware_websocket_in = "closed") ~> (in_pc = "connect")

\* the first frame's cycle failed in schedule (it recorded no optimization
\* time) and the second frame, read by the message loop of the same
\* connection, has run its cycle up to the LLM call
C33_Witness ==
    /\ n_recv = 2
    /\ n_cycles = 2
    /\ Len(optimization_times) = 1
    /\ proc_pc = "llm"
    /\ proc_ctx.site = "stream"
    /\ proc_ctx.frame = 2
    /\ hardware_websocket_out = "open"

\* the variance term as C34 describes it: computed from ten records on
C34_VarianceTerm(recent_demands) ==
    IF Len(recent_demands) >= 10 THEN VarianceConfidence(recent_demands) ELSE HalfConfidence

\* C34 as stated: the deterministic confidence of a cycle is the weighted
\* average whose variance term is computed from the trailing (at most 50)
\* ring records whenever the ring holds at least 10 records, exactly 10
\* included, and is the neutral 0.5 only below 10
C34_VarianceFromTenRecords ==
    [][CycleCompletes =>
          last_cycle'.milp_confidence =
              WeightedConfidence(latest_metrics'.optimization_time_ms,
                                 Sum([ i \in 1..Len(last_cycle'.records) |->
                                         Milli(last_cycle'.records[i].demand_amps) ]),
                                 Sum([ i \in 1..Len(last_cycle'.milp) |->
                                         Milli(last_cycle'.milp[i].supply_amps) ]),
                                 C34_VarianceTerm(RecentDemands(telemetry_buffer')))]_vars

\* C35: a cycle that completes while /in is not open sends nothing and still
\* publishes its metrics; nothing is kept for later, since every frame that
\* goes out on /in is the dispatch of the cycle completing in that very step
C35_DispatchDroppedWithoutLink ==
    /\ [][(CycleCompletes /\ hardware_websocket_in # "open") =>
             /\ UNCHANGED sendVars
             /\ latest_metrics'.set
             /\ latest_metrics'.dispatch_count = Len(last_cycle'.instructions)
             /\ latest_metrics'.confidence_score = last_cycle'.confidence]_vars
    /\ [][sent' # sent =>
             /\ CycleCompletes
             /\ hardware_websocket_in = "open"
             /\ Len(sent') = Len(sent) + 1
             /\ sent'[Len(sent')].frame = last_cycle'.frame
             /\ sent'[Len(sent')].data = DispatchFrame(last_cycle'.instructions).data]_vars

\* the first cycle produced three instructions before /in was connected;
\* /in is open now and nothing has been sent
C35_Witness ==
    /\ n_cycles = 1
    /\ last_cycle.frame = 1
    /\ Len(last_cycle.instructions) = 3
    /\ latest_metrics.set
    /\ hardware_websocket_in = "open"
    /\ in_pc = "open"
    /\ sent = << >>
    /\ dispatch_timestamps = << >>

\* C36: in the dispatch extracted from an optimally solved MILP no node id
\* appears in two instructions, hence no (node, source) pair either
C36_OneInstructionPerNode ==
    (o_stage = "done" /\ o_status = "optimal") =>
        \A j, k \in 1..Len(o_dispatch) : o_dispatch[j].id = o_dispatch[k].id => j = k

\* node 7 asks for 2.5 A, more than either of the sources SMALL (1.5 A) and
\* MEDIUM (2 A) can give and less than both together, and is served by one
\* of them only; node 2 is served as well
C36_Witness ==
    /\ o_stage = "done"
    /\ o_status = "optimal"
    /\ { o_source[1].id, o_source[2].id } = { "SMALL", "MEDIUM" }
    /\ Len(o_forecasts) = 2
    /\ o_forecasts[1].values[1] = 5 * Step
    /\ Len(o_dispatch) = 2
    /\ o_dispatch[1].id # o_dispatch[2].id

\* C37: while a cycle is suspended in the LLM call the ring is not touched,
\* and a cycle that completes finds the ring as its MILP dispatch and its
\* deterministic confidence were computed from it
C37_RingStableDuringCycle ==
    /\ [][proc_pc = "llm" => UNCHANGED << telemetry_buffer, ring_history >>]_vars
    /\ [][CycleCompletes =>
             /\ last_cycle'.milp \in { << >>, ServeLatest(telemetry_buffer') }
             /\ last_cycle'.milp_confidence =
                    calculate_confidence_score(last_cycle'.records, last_cycle'.milp,
                                               latest_metrics'.optimization_time_ms,
                                               telemetry_buffer')]_vars

\* the escalated cycle of frame 1 has completed while frame 2 was waiting
\* unread: the ring still holds the three records of frame 1
C37_Witness ==
    /\ last_cycle.frame = 1
    /\ last_cycle.escalated
    /\ proc_pc = "idle"
    /\ Len(out_messages) >= 1
    /\ telemetry_buffer = last_cycle.records
    /\ Len(telemetry_buffer) = 3

\* an instruction list that has no frame: a node id that is no integer or
\* lies outside 0..255, or more than 255 instructions
C38_Unencodable(instructions) ==
    \/ Len(instructions) > MaxCount
    \/ \E i \in 1..Len(instructions) :
          ~CanInt(instructions[i].id) \/ PyInt(instructions[i].id) \notin 0..255

\* C38: a cycle whose instruction list cannot be encoded sends no frame at
\* all and leaves the outbound timestamp window as it was, and the handler
\* runs to its end: the metrics of the cycle are published
C38_NoPartialFrame ==
    [][(CycleCompletes /\ C38_Unencodable(last_cycle'.instructions)) =>
          /\ UNCHANGED << sent, dispatch_timestamps >>
          /\ proc_pc' = "idle"
          /\ latest_metrics'.set
          /\ latest_metrics'.dispatch_count = Len(last_cycle'.instructions)]_vars

\* the second cycle took 256 instructions from the LLM while /in was in use
\* (the first cycle's dispatch cannot have been sent: /in connects after the
\* first frame), and nothing has been sent
C38_Witness ==
    /\ last_cycle.frame = 2
    /\ last_cycle.escalated
    /\ Len(last_cycle.instructions) = MaxCount + 1
    /\ hardware_websocket_in = "open"
    /\ sent = << >>
    /\ dispatch_timestamps = << >>
    /\ latest_metrics.dispatch_count = MaxCount + 1

\* the node ids of a sequence of records or instructions
RecordNodes(records) == { records[i].node_id : i \in 1..Len(records) }

\* the ids of ENERGY_SOURCES
ConfiguredSources == { VIRTUAL_ESP32 }

\* C39: every instruction of a cycle that did not escalate names a node with
\* a record in the ring the cycle ran on and a configured source
C39_InstructionsNameKnownNodes ==
    [][(CycleCompletes /\ ~last_cycle'.escalated) =>
          \A i \in 1..Len(last_cycle'.instructions) :
              /\ last_cycle'.instructions[i].id \in RecordNodes(telemetry_buffer')
              /\ last_cycle'.instructions[i].source_id \in ConfiguredSources]_vars

\* the second frame carried node 2 alone; its cycle, which did not escalate,
\* instructs node 7 and node 3 too, which are in the ring from the first frame
C39_Witness ==
    /\ last_cycle.frame = 2
    /\ ~last_cycle.escalated
    /\ RecordNodes(last_cycle.records) = { PyStr(2) }
    /\ { last_cycle.instructions[i].id : i \in 1..Len(last_cycle.instructions) }
          = { PyStr(7), PyStr(2), PyStr(3) }

====
